---------------------------- MODULE Spec2Model ----------------------------
(***************************************************************************)
(* Model of the save synchronisation core of myCloudGameSave:              *)
(*   src/src/sync_engine.py       SyncEngine (compare_directories,         *)
(*                                _determine_action, copy_file,            *)
(*                                create_backup, sync_files)               *)
(*   src/src/conflict_resolver.py ConflictResolver (create_conflict_backup,*)
(*                                resolve_conflict, detect_conflict)       *)
(*   src/gamesync.py              cmd_sync (the resolution of conflicts,   *)
(*                                the update of last_sync)                 *)
(*   src/src/vdf_parser.py        VDFParser, ShortcutsParser               *)
(*   src/src/game_detector.py     GameDetector.detect_non_steam_games      *)
(*   src/src/save_detector.py     SaveLocationDetector                     *)
(*                                (find_save_directories)                  *)
(* and of the directional sync (sync_to_cloud, sync_from_cloud).           *)
(*                                                                         *)
(* Time is counted in ticks after the epoch, TicksPerSecond ticks to the   *)
(* second, so that modification times (floats in the code) may lie         *)
(* strictly inside a second while backup names (strftime, whole seconds)   *)
(* may not.  File names are numbers: their order is the order sorted()     *)
(* gives the names.  File contents are numbers too (one per version).      *)
(***************************************************************************)
EXTENDS Integers, Sequences, FiniteSets, TLC

VARIABLES
    local,        \* local_dir:  [state, files, renamed]
    cloud,        \* cloud_dir:  [state, files, renamed]
    backup_dir,   \* backup_dir: [exists, files]
    clock,        \* datetime.now(), in ticks
    pc,           \* position of the running call
    dry_run,      \* sync_files argument
    last_sync,    \* sync_files / compare_directories argument
    comparisons,  \* list returned by compare_directories
    idx,          \* position of sync_files' loop in comparisons
    results,      \* sync_files' results dictionary
    fs0,          \* the three directories as they were when the call started
    call,         \* resolve_conflict: arguments and progress of the call
    game_config,  \* cmd_sync: the game's configuration as persisted
    preview,      \* cmd_sync: what the dry run before this run reported
    detected,     \* detect_conflict: the value returned
    dsync,        \* sync_to_cloud / sync_from_cloud: arguments and result
    vdf,          \* ShortcutsParser: the file's bytes and the value returned
    detector,     \* GameDetector: the users' shortcuts files and the games found
    saves,        \* SaveLocationDetector: the directory tree and the result
    cmd           \* cmd_sync: the arguments and the progress of the command

vars == <<local, cloud, backup_dir, clock, pc, dry_run, last_sync,
          comparisons, idx, results, fs0, call,
          game_config, preview, detected, dsync, vdf, detector, saves, cmd>>

\* the variables of the callers and of the other components, which
\* SyncEngine's and ConflictResolver's methods do not touch
aux == <<game_config, preview, detected, dsync, vdf, detector, saves, cmd>>

---------------------------------------------------------------------------
(* Bounds *)

MaxTime == 4

TicksPerSecond == 2

MaxClock == 2

MaxDetectTime == 8

MaxTokens == 5

FileNames == {1, 2}

Times == 1..MaxTime

---------------------------------------------------------------------------
(* The filesystem *)

NoEntry == [kind |-> "none", bytes |-> 0, mtime |-> 0]

SubDir == [kind |-> "dir", bytes |-> 0, mtime |-> 0]

RegularFile(b, t) == [kind |-> "file", bytes |-> b, mtime |-> t]

\* What a failed write leaves behind once the destination has been opened.
PartialBytes == 0

\* The bytes the two sides start with: every file and side its own version.
InitialBytes(side, f) == IF side = "local" THEN 2 * f - 1 ELSE 2 * f

EmptyFiles == [f \in FileNames |-> NoEntry]

MissingDir == [state |-> "missing", files |-> EmptyFiles, renamed |-> {}]

\* Path.exists() on a directory
DirExists(dir) == dir.state # "missing"

\* Path.is_file() on directory / filename
IsFile(dir, f) == dir.files[f].kind = "file"

---------------------------------------------------------------------------
(* SyncEngine.compare_directories *)

NoTime == {}

\* datetime.fromisoformat(last_sync).timestamp(), None when last_sync is
\* None or empty, or when it does not parse (the bare except)
LastSyncTime(ls) == IF ls.kind = "iso" THEN {ls.ts} ELSE NoTime

\* Python's truth test of an Optional[float]: None and 0.0 are false
Truthy(opt) == opt # NoTime /\ opt # {0}

TheTime(opt) == CHOOSE t \in opt : TRUE

\* iterdir() is taken to succeed: a directory whose listing is denied (the
\* PermissionError branch) is not part of the modelled filesystem.
GetFilesUnfiltered(dir) ==
    IF ~DirExists(dir) THEN {}
    ELSE {f \in FileNames : dir.files[f].kind # "none"}

GetFiles(dir) ==
    IF ~DirExists(dir) THEN {}
    ELSE {f \in FileNames : IsFile(dir, f)}

FileComparison(filename, local_path, cloud_path) ==
    [filename    |-> filename,
     local_path  |-> local_path,
     cloud_path  |-> cloud_path,
     action      |-> "skip",
     local_mtime |-> IF local_path /\ local.files[filename].kind # "none"
                     THEN {local.files[filename].mtime} ELSE NoTime,
     cloud_mtime |-> IF cloud_path /\ cloud.files[filename].kind # "none"
                     THEN {cloud.files[filename].mtime} ELSE NoTime]

\* DetermineAction without the three-way merge: last_sync is ignored and the
\* newer side always wins.
DetermineActionNewerWins(comparison, last_sync_time) ==
    LET local_exists == comparison.local_path
        cloud_exists == comparison.cloud_path
        local_mtime == TheTime(comparison.local_mtime)
        cloud_mtime == TheTime(comparison.cloud_mtime)
    IN  IF local_exists /\ ~cloud_exists THEN "copy_to_cloud"
        ELSE IF cloud_exists /\ ~local_exists THEN "copy_to_local"
        ELSE IF local_exists /\ cloud_exists THEN
            IF local_mtime > cloud_mtime THEN "copy_to_cloud"
            ELSE IF cloud_mtime > local_mtime THEN "copy_to_local"
            ELSE "skip"
        ELSE "skip"

\* DetermineAction testing the modification times before the existence of the
\* two sides: a one-sided file not modified since last_sync is skipped.
DetermineActionModifiedFirst(comparison, last_sync_time) ==
    LET local_exists == comparison.local_path
        cloud_exists == comparison.cloud_path
        modified(opt) == opt # NoTime /\ TheTime(opt) > TheTime(last_sync_time)
        local_modified == modified(comparison.local_mtime)
        cloud_modified == modified(comparison.cloud_mtime)
    IN  IF Truthy(last_sync_time) THEN
            IF local_modified /\ cloud_modified THEN "conflict"
            ELSE IF local_modified THEN "copy_to_cloud"
            ELSE IF cloud_modified THEN "copy_to_local"
            ELSE "skip"
        ELSE IF local_exists /\ ~cloud_exists THEN "copy_to_cloud"
        ELSE IF cloud_exists /\ ~local_exists THEN "copy_to_local"
        ELSE IF TheTime(comparison.local_mtime) > TheTime(comparison.cloud_mtime)
            THEN "copy_to_cloud"
        ELSE IF TheTime(comparison.cloud_mtime) > TheTime(comparison.local_mtime)
            THEN "copy_to_local"
        ELSE "skip"

\* DetermineAction with >= for > in the comparison without last_sync: equal
\* modification times copy to the cloud.
DetermineActionTieToCloud(comparison, last_sync_time) ==
    LET local_exists == comparison.local_path
        cloud_exists == comparison.cloud_path
        local_mtime == TheTime(comparison.local_mtime)
        cloud_mtime == TheTime(comparison.cloud_mtime)
    IN  IF local_exists /\ ~cloud_exists THEN "copy_to_cloud"
        ELSE IF cloud_exists /\ ~local_exists THEN "copy_to_local"
        ELSE IF local_exists /\ cloud_exists THEN
            IF Truthy(last_sync_time) THEN
                LET local_modified == local_mtime > TheTime(last_sync_time)
                    cloud_modified == cloud_mtime > TheTime(last_sync_time)
                IN  IF local_modified /\ cloud_modified THEN "conflict"
                    ELSE IF local_modified /\ ~cloud_modified THEN "copy_to_cloud"
                    ELSE IF cloud_modified /\ ~local_modified THEN "copy_to_local"
                    ELSE "skip"
            ELSE IF local_mtime >= cloud_mtime THEN "copy_to_cloud"
            ELSE IF cloud_mtime > local_mtime THEN "copy_to_local"
            ELSE "skip"
        ELSE "skip"

\* DetermineAction with the one-second slack of ConflictResolver.detect_conflict.
DetermineActionWithSlack(comparison, last_sync_time) ==
    LET local_exists == comparison.local_path
        cloud_exists == comparison.cloud_path
        local_mtime == TheTime(comparison.local_mtime)
        cloud_mtime == TheTime(comparison.cloud_mtime)
    IN  IF local_exists /\ ~cloud_exists THEN "copy_to_cloud"
        ELSE IF cloud_exists /\ ~local_exists THEN "copy_to_local"
        ELSE IF local_exists /\ cloud_exists THEN
            IF Truthy(last_sync_time) THEN
                LET local_modified ==
                        local_mtime > TheTime(last_sync_time) + TicksPerSecond
                    cloud_modified ==
                        cloud_mtime > TheTime(last_sync_time) + TicksPerSecond
                IN  IF local_modified /\ cloud_modified THEN "conflict"
                    ELSE IF local_modified /\ ~cloud_modified THEN "copy_to_cloud"
                    ELSE IF cloud_modified /\ ~local_modified THEN "copy_to_local"
                    ELSE "skip"
            ELSE IF local_mtime > cloud_mtime THEN "copy_to_cloud"
            ELSE IF cloud_mtime > local_mtime THEN "copy_to_local"
            ELSE "skip"
        ELSE "skip"

\* DetermineAction letting the local side win when both sides were modified
\* after last_sync, whichever is the newer.
DetermineActionLocalWinsConflict(comparison, last_sync_time) ==
    LET local_exists == comparison.local_path
        cloud_exists == comparison.cloud_path
        local_mtime == TheTime(comparison.local_mtime)
        cloud_mtime == TheTime(comparison.cloud_mtime)
    IN  IF local_exists /\ ~cloud_exists THEN "copy_to_cloud"
        ELSE IF cloud_exists /\ ~local_exists THEN "copy_to_local"
        ELSE IF local_exists /\ cloud_exists THEN
            IF Truthy(last_sync_time) THEN
                LET local_modified == local_mtime > TheTime(last_sync_time)
                    cloud_modified == cloud_mtime > TheTime(last_sync_time)
                IN  IF local_modified THEN "copy_to_cloud"
                    ELSE IF cloud_modified /\ ~local_modified THEN "copy_to_local"
                    ELSE "skip"
            ELSE IF local_mtime > cloud_mtime THEN "copy_to_cloud"
            ELSE IF cloud_mtime > local_mtime THEN "copy_to_local"
            ELSE "skip"
        ELSE "skip"

DetermineAction(comparison, last_sync_time) ==
    LET local_exists == comparison.local_path
        cloud_exists == comparison.cloud_path
        local_mtime == TheTime(comparison.local_mtime)
        cloud_mtime == TheTime(comparison.cloud_mtime)
    IN  IF local_exists /\ ~cloud_exists THEN "copy_to_cloud"
        ELSE IF cloud_exists /\ ~local_exists THEN "copy_to_local"
        ELSE IF local_exists /\ cloud_exists THEN
            IF Truthy(last_sync_time) THEN
                LET local_modified == local_mtime > TheTime(last_sync_time)
                    cloud_modified == cloud_mtime > TheTime(last_sync_time)
                IN  IF local_modified /\ cloud_modified THEN "conflict"
                    ELSE IF local_modified /\ ~cloud_modified THEN "copy_to_cloud"
                    ELSE IF cloud_modified /\ ~local_modified THEN "copy_to_local"
                    ELSE "skip"
            ELSE IF local_mtime > cloud_mtime THEN "copy_to_cloud"
            ELSE IF cloud_mtime > local_mtime THEN "copy_to_local"
            ELSE "skip"
        ELSE "skip"

Least(S) == CHOOSE m \in S : \A n \in S : m <= n

\* sorted(all_files)
RECURSIVE Sorted(_)
Sorted(S) == IF S = {} THEN <<>> ELSE <<Least(S)>> \o Sorted(S \ {Least(S)})

CompareDirectories(ls) ==
    LET last_sync_time == LastSyncTime(ls)
        local_files == IF DirExists(local) THEN GetFiles(local) ELSE {}
        cloud_files == IF DirExists(cloud) THEN GetFiles(cloud) ELSE {}
        all_files == local_files \cup cloud_files
        names == Sorted(all_files)
    IN  [i \in 1..Len(names) |->
            LET comparison == FileComparison(names[i], names[i] \in local_files,
                                             names[i] \in cloud_files)
            IN  [comparison EXCEPT
                    !.action = DetermineAction(comparison, last_sync_time)]]

---------------------------------------------------------------------------
(* Inputs *)

LastSyncValues ==
    {[kind |-> "none", ts |-> 0], [kind |-> "invalid", ts |-> 0]}
        \cup {[kind |-> "iso", ts |-> t] : t \in Times}

FileEntries(side, f) == {RegularFile(InitialBytes(side, f), t) : t \in Times}

Listings(side, others) ==
    {l \in [FileNames -> others \cup UNION {FileEntries(side, f) : f \in FileNames}] :
        \A f \in FileNames : l[f] \in others \cup FileEntries(side, f)}

\* A directory of regular files: every name absent or a file of the side's
\* initial bytes with some modification time.  The directory may be missing.
FileDirs(side) ==
    {MissingDir} \cup
    {[state |-> "ok", files |-> fl, renamed |-> {}] : fl \in Listings(side, {NoEntry})}

\* Any directory: an entry may also be a subdirectory.
AnyDirs(side) ==
    {MissingDir} \cup
    {[state |-> "ok", files |-> fl, renamed |-> {}] :
        fl \in Listings(side, {NoEntry, SubDir})}

NoBackups == [exists |-> FALSE, files |-> {}]

NoResults ==
    [success |-> TRUE, files_synced |-> 0, files_skipped |-> 0, conflicts |-> 0,
     errors |-> <<>>, actions |-> <<>>]

NoCall == [filename |-> 0, strategy |-> "none", timestamp |-> 0, writes |-> 0,
           returned |-> "none"]

Snapshot == [local |-> local, cloud |-> cloud, backup_dir |-> backup_dir]

\* game_config['sync']['last_sync'] of a game that was never synchronised
NoConfig == [last_sync |-> [kind |-> "none", ts |-> 0]]

NoPreview == [ran |-> FALSE, actions |-> <<>>]

NoDirectional ==
    [direction |-> "none", force |-> FALSE, total_copied |-> 0,
     total_skipped |-> 0, total_errors |-> 0, skipped |-> <<>>]

\* unknown: whether the parser read a type byte it does not know
NoVdf == [data |-> <<>>, returned |-> "none", games |-> <<>>, unknown |-> FALSE]

\* the callers and the other components at rest
\* no GameDetector call: no user has a shortcuts file and nothing is returned
NoDetector ==
    [userdata |-> <<>>, user_id |-> 0, position |-> 0, all_games |-> <<>>,
     warnings |-> <<>>]

\* no SaveLocationDetector call: no directory and nothing returned
NoSaves ==
    [dirs |-> {}, files |-> <<>>, name |-> <<>>, start_dir |-> <<>>,
     os_type |-> "linux", call |-> "none", game_dir |-> <<>>,
     returned |-> <<>>]

\* cmd_sync not started: no conflict asked about, no run finished
NoCmd ==
    [stage |-> "start", force |-> FALSE, resolved |-> {}, skipped |-> {},
     runs |-> <<>>]

AuxInit ==
    /\ game_config = NoConfig
    /\ preview = NoPreview
    /\ detected = "none"
    /\ dsync = NoDirectional
    /\ vdf = NoVdf
    /\ detector = NoDetector
    /\ saves = NoSaves
    /\ cmd = NoCmd

---------------------------------------------------------------------------
(* compare_directories on its own: the comparison of any two directories *)

CmpInit ==
    /\ local \in AnyDirs("local")
    /\ cloud \in AnyDirs("cloud")
    /\ last_sync \in LastSyncValues
    /\ backup_dir = NoBackups
    /\ clock = 1
    /\ pc = "idle"
    /\ dry_run = FALSE
    /\ comparisons = <<>>
    /\ idx = 0
    /\ results = NoResults
    /\ fs0 = [local |-> local, cloud |-> cloud, backup_dir |-> NoBackups]
    /\ call = NoCall
    /\ AuxInit

Compare ==
    /\ pc = "idle"
    /\ comparisons' = CompareDirectories(last_sync)
    /\ pc' = "compared"
    /\ UNCHANGED <<local, cloud, backup_dir, clock, dry_run, last_sync, idx,
                   results, fs0, call>>
    /\ UNCHANGED aux

CmpNext == Compare

CompareSpec == CmpInit /\ [][CmpNext]_vars

---------------------------------------------------------------------------
(* SyncEngine.copy_file and SyncEngine.create_backup *)

\* How a write to the filesystem ends: done; failed before the destination
\* was opened (nothing changed); failed after it (a truncated destination).
Outcomes == {"ok", "fail", "partial"}

\* strftime("%Y%m%d-%H%M%S") of datetime.now(): the clock in whole seconds
Timestamp == clock \div TicksPerSecond

BackupFile(filename, timestamp, label, suffix, bytes) ==
    [filename |-> filename, timestamp |-> timestamp, label |-> label,
     suffix |-> suffix, bytes |-> bytes]

SamePath(b1, b2) ==
    /\ b1.filename = b2.filename /\ b1.timestamp = b2.timestamp
    /\ b1.label = b2.label /\ b1.suffix = b2.suffix

\* Writing a file of backup_dir: mkdir(parents, exist_ok), then the file
\* takes the place of whatever had its path.
WriteBackup(bd, b) ==
    [exists |-> TRUE, files |-> {x \in bd.files : ~SamePath(x, b)} \cup {b}]

\* CopyFile with shutil.copy for shutil.copy2 (preserve_timestamp false): the
\* destination's modification time is the time of the copy.
CopyFileWithoutTimestamp(source, dest_dir, filename, outcome) ==
    CASE outcome = "ok" ->
            [dest_dir EXCEPT
                !.state = "ok",
                !.files[filename] = RegularFile(source.bytes, clock)]
      [] outcome = "partial" ->
            [dest_dir EXCEPT
                !.state = "ok",
                !.files[filename] = RegularFile(PartialBytes, clock)]
      [] OTHER -> dest_dir

\* copy_file(source, dest_dir / filename): the destination directory after
\* the call; shutil.copy2 copies the bytes and the modification time.
CopyFile(source, dest_dir, filename, outcome) ==
    CASE outcome = "ok" ->
            [dest_dir EXCEPT
                !.state = "ok",
                !.files[filename] = RegularFile(source.bytes, source.mtime)]
      [] outcome = "partial" ->
            [dest_dir EXCEPT
                !.state = "ok",
                !.files[filename] = RegularFile(PartialBytes, clock)]
      [] OTHER -> dest_dir

\* copy_file's return value
CopySucceeds(outcome) == outcome = "ok"

\* create_backup(file_path, backup_dir, source_label): backup_dir after the
\* call; the return value (the path or None) is used by no caller.
CreateBackup(file, filename, source_label, outcome) ==
    IF file.kind = "none" THEN backup_dir
    ELSE CASE outcome = "ok" ->
                WriteBackup(backup_dir,
                    BackupFile(filename, Timestamp, source_label, "backup", file.bytes))
           [] outcome = "partial" ->
                WriteBackup(backup_dir,
                    BackupFile(filename, Timestamp, source_label, "backup", PartialBytes))
           [] OTHER -> backup_dir

---------------------------------------------------------------------------
(* SyncEngine.sync_files *)

ActionResult(comp) ==
    [filename |-> comp.filename, action |-> comp.action, success |-> FALSE,
     direction |-> "", dry_run |-> FALSE, needs_resolution |-> FALSE]

Comp == comparisons[idx]

InLoop == pc = "loop" /\ idx <= Len(comparisons)

\* SyncFiles not passing last_sync to compare_directories in a dry run
SyncFilesDryRunWithoutLastSync(dry, ls) ==
    /\ pc = "idle"
    /\ dry_run' = dry
    /\ last_sync' = ls
    /\ results' = NoResults
    /\ comparisons' = CompareDirectories(IF dry THEN [kind |-> "none", ts |-> 0]
                                         ELSE ls)
    /\ idx' = 1
    /\ fs0' = Snapshot
    /\ pc' = "loop"
    /\ UNCHANGED <<local, cloud, backup_dir, clock, call>>
    /\ UNCHANGED aux

SyncFiles(dry, ls) ==
    /\ pc = "idle"
    /\ dry_run' = dry
    /\ last_sync' = ls
    /\ results' = NoResults
    /\ comparisons' = CompareDirectories(ls)
    /\ idx' = 1
    /\ fs0' = Snapshot
    /\ pc' = "loop"
    /\ UNCHANGED <<local, cloud, backup_dir, clock, call>>
    /\ UNCHANGED aux

\* COPY_TO_CLOUD or COPY_TO_LOCAL under dry_run
SyncDryRun ==
    /\ InLoop
    /\ Comp.action \in {"copy_to_cloud", "copy_to_local"}
    /\ dry_run
    /\ results' = [results EXCEPT
          !.actions = Append(@, [ActionResult(Comp) EXCEPT
              !.direction = IF Comp.action = "copy_to_cloud"
                            THEN "local -> cloud" ELSE "cloud -> local",
              !.success = TRUE,
              !.dry_run = TRUE])]
    /\ idx' = idx + 1
    /\ UNCHANGED <<local, cloud, backup_dir, clock, pc, dry_run, last_sync,
                   comparisons, fs0, call>>
    /\ UNCHANGED aux

\* SyncBackup outside the test of dry_run
SyncBackupIgnoringDryRun ==
    /\ InLoop
    /\ Comp.action \in {"copy_to_cloud", "copy_to_local"}
    /\ \E outcome \in Outcomes :
          backup_dir' =
              IF Comp.action = "copy_to_cloud"
              THEN CreateBackup(cloud.files[Comp.filename], Comp.filename,
                                "cloud", outcome)
              ELSE CreateBackup(local.files[Comp.filename], Comp.filename,
                                "local", outcome)
    /\ pc' = "copy"
    /\ UNCHANGED <<local, cloud, clock, dry_run, last_sync, comparisons, idx,
                   results, fs0, call>>
    /\ UNCHANGED aux

\* COPY_TO_CLOUD or COPY_TO_LOCAL: the backup of the destination, if it exists
SyncBackup ==
    /\ InLoop
    /\ Comp.action \in {"copy_to_cloud", "copy_to_local"}
    /\ ~dry_run
    /\ \E outcome \in Outcomes :
          backup_dir' =
              IF Comp.action = "copy_to_cloud"
              THEN IF Comp.cloud_path /\ cloud.files[Comp.filename].kind # "none"
                   THEN CreateBackup(cloud.files[Comp.filename], Comp.filename,
                                     "cloud", outcome)
                   ELSE backup_dir
              ELSE IF Comp.local_path /\ local.files[Comp.filename].kind # "none"
                   THEN CreateBackup(local.files[Comp.filename], Comp.filename,
                                     "local", outcome)
                   ELSE backup_dir
    /\ pc' = "copy"
    /\ UNCHANGED <<local, cloud, clock, dry_run, last_sync, comparisons, idx,
                   results, fs0, call>>
    /\ UNCHANGED aux

\* SyncCopy letting the failure of a copy end the run: the error is recorded
\* and results is returned at once, the rest of the comparison unprocessed.
SyncCopyAbortsOnFailure ==
    /\ pc = "copy"
    /\ \E outcome \in Outcomes :
          /\ IF Comp.action = "copy_to_cloud"
             THEN /\ cloud' = CopyFile(local.files[Comp.filename], cloud,
                                       Comp.filename, outcome)
                  /\ local' = local
             ELSE /\ local' = CopyFile(cloud.files[Comp.filename], local,
                                       Comp.filename, outcome)
                  /\ cloud' = cloud
          /\ results' = [results EXCEPT
                !.actions = Append(@, [ActionResult(Comp) EXCEPT
                    !.direction = IF Comp.action = "copy_to_cloud"
                                  THEN "local -> cloud" ELSE "cloud -> local",
                    !.success = CopySucceeds(outcome)]),
                !.files_synced = IF CopySucceeds(outcome) THEN @ + 1 ELSE @,
                !.errors = IF CopySucceeds(outcome) THEN @
                           ELSE Append(@, [filename |-> Comp.filename,
                                           action |-> Comp.action])]
          /\ pc' = IF CopySucceeds(outcome) THEN "loop" ELSE "returned"
    /\ idx' = idx + 1
    /\ UNCHANGED <<backup_dir, clock, dry_run, last_sync, comparisons, fs0, call>>
    /\ UNCHANGED aux

\* SyncCopy counting a failed copy as synced as well as an error
SyncCopyCountingFailures ==
    /\ pc = "copy"
    /\ \E outcome \in Outcomes :
          /\ IF Comp.action = "copy_to_cloud"
             THEN /\ cloud' = CopyFile(local.files[Comp.filename], cloud,
                                       Comp.filename, outcome)
                  /\ local' = local
             ELSE /\ local' = CopyFile(cloud.files[Comp.filename], local,
                                       Comp.filename, outcome)
                  /\ cloud' = cloud
          /\ results' = [results EXCEPT
                !.actions = Append(@, [ActionResult(Comp) EXCEPT
                    !.direction = IF Comp.action = "copy_to_cloud"
                                  THEN "local -> cloud" ELSE "cloud -> local",
                    !.success = CopySucceeds(outcome)]),
                !.files_synced = @ + 1,
                !.errors = IF CopySucceeds(outcome) THEN @
                           ELSE Append(@, [filename |-> Comp.filename,
                                           action |-> Comp.action])]
    /\ idx' = idx + 1
    /\ pc' = "loop"
    /\ UNCHANGED <<backup_dir, clock, dry_run, last_sync, comparisons, fs0, call>>
    /\ UNCHANGED aux

\* COPY_TO_CLOUD or COPY_TO_LOCAL: the copy and its entry in the results
SyncCopy ==
    /\ pc = "copy"
    /\ \E outcome \in Outcomes :
          /\ IF Comp.action = "copy_to_cloud"
             THEN /\ cloud' = CopyFile(local.files[Comp.filename], cloud,
                                       Comp.filename, outcome)
                  /\ local' = local
             ELSE /\ local' = CopyFile(cloud.files[Comp.filename], local,
                                       Comp.filename, outcome)
                  /\ cloud' = cloud
          /\ results' = [results EXCEPT
                !.actions = Append(@, [ActionResult(Comp) EXCEPT
                    !.direction = IF Comp.action = "copy_to_cloud"
                                  THEN "local -> cloud" ELSE "cloud -> local",
                    !.success = CopySucceeds(outcome)]),
                !.files_synced = IF CopySucceeds(outcome) THEN @ + 1 ELSE @,
                !.errors = IF CopySucceeds(outcome) THEN @
                           ELSE Append(@, [filename |-> Comp.filename,
                                           action |-> Comp.action])]
    /\ idx' = idx + 1
    /\ pc' = "loop"
    /\ UNCHANGED <<backup_dir, clock, dry_run, last_sync, comparisons, fs0, call>>
    /\ UNCHANGED aux

\* SyncConflict resolving the conflict itself: the local file wins
SyncConflictLocalWins ==
    /\ InLoop
    /\ Comp.action = "conflict"
    /\ cloud' = IF dry_run THEN cloud
                ELSE CopyFile(local.files[Comp.filename], cloud, Comp.filename, "ok")
    /\ results' = [results EXCEPT
          !.conflicts = @ + 1,
          !.actions = Append(@, [ActionResult(Comp) EXCEPT
              !.direction = "conflict",
              !.success = FALSE,
              !.needs_resolution = TRUE])]
    /\ idx' = idx + 1
    /\ UNCHANGED <<local, backup_dir, clock, pc, dry_run, last_sync,
                   comparisons, fs0, call>>
    /\ UNCHANGED aux

SyncConflict ==
    /\ InLoop
    /\ Comp.action = "conflict"
    /\ results' = [results EXCEPT
          !.conflicts = @ + 1,
          !.actions = Append(@, [ActionResult(Comp) EXCEPT
              !.direction = "conflict",
              !.success = FALSE,
              !.needs_resolution = TRUE])]
    /\ idx' = idx + 1
    /\ UNCHANGED <<local, cloud, backup_dir, clock, pc, dry_run, last_sync,
                   comparisons, fs0, call>>
    /\ UNCHANGED aux

SyncSkip ==
    /\ InLoop
    /\ Comp.action = "skip"
    /\ results' = [results EXCEPT
          !.files_skipped = @ + 1,
          !.actions = Append(@, [ActionResult(Comp) EXCEPT
              !.direction = "skip",
              !.success = TRUE])]
    /\ idx' = idx + 1
    /\ UNCHANGED <<local, cloud, backup_dir, clock, pc, dry_run, last_sync,
                   comparisons, fs0, call>>
    /\ UNCHANGED aux

\* return results
SyncReturn ==
    /\ pc = "loop"
    /\ idx > Len(comparisons)
    /\ pc' = "returned"
    /\ UNCHANGED <<local, cloud, backup_dir, clock, dry_run, last_sync,
                   comparisons, idx, results, fs0, call>>
    /\ UNCHANGED aux

---------------------------------------------------------------------------
(* ConflictResolver.create_conflict_backup and resolve_conflict.  An       *)
(* exception of a filesystem call is caught nowhere: it ends the call.     *)

Strategies == {"keep_local", "keep_cloud", "keep_both", "manual"}

\* path.write_bytes(data): the file after the write, its mtime the clock's
WriteBytes(dir, filename, bytes) ==
    [dir EXCEPT !.files[filename] = RegularFile(bytes, clock)]

\* path.rename(parent / f"{stem}.{timestamp}.{label}{suffix}")
Rename(dir, filename, label) ==
    LET new == [filename |-> filename, timestamp |-> Timestamp, label |-> label,
                bytes |-> dir.files[filename].bytes,
                mtime |-> dir.files[filename].mtime]
    IN  [dir EXCEPT
            !.files[filename] = NoEntry,
            !.renamed = {r \in @ : ~(/\ r.filename = filename
                                     /\ r.timestamp = Timestamp
                                     /\ r.label = label)} \cup {new}]

\* The end of the call: value is "true", "false", or "raised" for an exception.
Return(value) == /\ pc' = "rc_done"
                 /\ call' = [call EXCEPT !.returned = value]

Raise == Return("raised")

ResolveConflict(f, strategy) ==
    /\ pc = "idle"
    /\ call' = [filename |-> f, strategy |-> strategy, timestamp |-> 0,
                writes |-> 0, returned |-> "none"]
    /\ fs0' = Snapshot
    /\ pc' = "rc_mkdir"
    /\ UNCHANGED <<local, cloud, backup_dir, clock, dry_run, last_sync,
                   comparisons, idx, results>>
    /\ UNCHANGED aux

\* backup_dir.mkdir(parents=True, exist_ok=True); timestamp = now
RcMkdir ==
    /\ pc = "rc_mkdir"
    /\ \/ /\ backup_dir' = [backup_dir EXCEPT !.exists = TRUE]
          /\ call' = [call EXCEPT !.timestamp = Timestamp]
          /\ pc' = "rc_local"
       \/ /\ ~backup_dir.exists
          /\ Raise
          /\ UNCHANGED backup_dir
    /\ UNCHANGED <<local, cloud, clock, dry_run, last_sync, comparisons, idx,
                   results, fs0>>
    /\ UNCHANGED aux

\* one of the two "if path.exists(): backup.write_bytes(path.read_bytes())"
RcBackup(dir, label, next) ==
    LET file == dir.files[call.filename]
    IN  IF file.kind = "none"
        THEN /\ pc' = next
             /\ UNCHANGED <<backup_dir, call>>
        ELSE \/ /\ backup_dir' = WriteBackup(backup_dir,
                        BackupFile(call.filename, call.timestamp, label,
                                   "conflict", file.bytes))
                /\ call' = [call EXCEPT !.writes = @ + 1]
                /\ pc' = next
             \/ /\ Raise
                /\ UNCHANGED backup_dir
             \/ /\ backup_dir' = WriteBackup(backup_dir,
                        BackupFile(call.filename, call.timestamp, label,
                                   "conflict", PartialBytes))
                /\ Raise

RcBackupLocal ==
    /\ pc = "rc_local"
    /\ RcBackup(local, "local", "rc_cloud")
    /\ UNCHANGED <<local, cloud, clock, dry_run, last_sync, comparisons, idx,
                   results, fs0>>
    /\ UNCHANGED aux

\* RcBackupCloud forgotten: only the local version is backed up
RcBackupCloudSkipped ==
    /\ pc = "rc_cloud"
    /\ pc' = "rc_apply"
    /\ UNCHANGED <<local, cloud, backup_dir, clock, dry_run, last_sync,
                   comparisons, idx, results, fs0, call>>
    /\ UNCHANGED aux

RcBackupCloud ==
    /\ pc = "rc_cloud"
    /\ RcBackup(cloud, "cloud", "rc_apply")
    /\ UNCHANGED <<local, cloud, clock, dry_run, last_sync, comparisons, idx,
                   results, fs0>>
    /\ UNCHANGED aux

\* to.write_bytes(from.read_bytes()); to.touch(); return True
\* The ways the step may end: the directory of `to` after it, and whether it
\* returned or raised.  It raises when `from` is missing, when the directory
\* of `to` is, or when the write fails (before or after truncating `to`).
Overwrite(from, to) ==
    IF from.files[call.filename].kind = "none" \/ ~DirExists(to)
    THEN {[dir |-> to, returned |-> "raised"]}
    ELSE {[dir |-> WriteBytes(to, call.filename, from.files[call.filename].bytes),
           returned |-> "true"],
          [dir |-> to, returned |-> "raised"],
          [dir |-> WriteBytes(to, call.filename, PartialBytes),
           returned |-> "raised"]}

\* RcKeepLocal copying the wrong way: the cloud version over the local one
RcKeepLocalWrongWay ==
    /\ pc = "rc_apply"
    /\ call.strategy = "keep_local"
    /\ \E end \in Overwrite(cloud, local) :
          local' = end.dir /\ Return(end.returned)
    /\ UNCHANGED <<cloud, backup_dir, clock, dry_run, last_sync, comparisons,
                   idx, results, fs0>>
    /\ UNCHANGED aux

RcKeepLocal ==
    /\ pc = "rc_apply"
    /\ call.strategy = "keep_local"
    /\ \E end \in Overwrite(local, cloud) :
          cloud' = end.dir /\ Return(end.returned)
    /\ UNCHANGED <<local, backup_dir, clock, dry_run, last_sync, comparisons,
                   idx, results, fs0>>
    /\ UNCHANGED aux

RcKeepCloud ==
    /\ pc = "rc_apply"
    /\ call.strategy = "keep_cloud"
    /\ \E end \in Overwrite(cloud, local) :
          local' = end.dir /\ Return(end.returned)
    /\ UNCHANGED <<cloud, backup_dir, clock, dry_run, last_sync, comparisons,
                   idx, results, fs0>>
    /\ UNCHANGED aux

\* KEEP_BOTH: local_path.rename(local_new)
RcRenameLocal ==
    /\ pc = "rc_apply"
    /\ call.strategy = "keep_both"
    /\ IF local.files[call.filename].kind = "none"
       THEN Raise /\ UNCHANGED local
       ELSE \/ /\ local' = Rename(local, call.filename, "local")
               /\ pc' = "rc_rename_cloud"
               /\ UNCHANGED call
            \/ Raise /\ UNCHANGED local
    /\ UNCHANGED <<cloud, backup_dir, clock, dry_run, last_sync, comparisons,
                   idx, results, fs0>>
    /\ UNCHANGED aux

\* RcRenameCloud without the rename: the cloud file keeps its name
RcRenameCloudForgotten ==
    /\ pc = "rc_rename_cloud"
    /\ Return("true")
    /\ UNCHANGED <<local, cloud, backup_dir, clock, dry_run, last_sync,
                   comparisons, idx, results, fs0>>
    /\ UNCHANGED aux

\* KEEP_BOTH: cloud_path.rename(cloud_new); return True
RcRenameCloud ==
    /\ pc = "rc_rename_cloud"
    /\ IF cloud.files[call.filename].kind = "none"
       THEN Raise /\ UNCHANGED cloud
       ELSE \/ /\ cloud' = Rename(cloud, call.filename, "cloud")
               /\ Return("true")
            \/ Raise /\ UNCHANGED cloud
    /\ UNCHANGED <<local, backup_dir, clock, dry_run, last_sync, comparisons,
                   idx, results, fs0>>
    /\ UNCHANGED aux

\* RcManual falling into the KEEP_LOCAL branch
RcManualKeepsLocal ==
    /\ pc = "rc_apply"
    /\ call.strategy = "manual"
    /\ \E end \in Overwrite(local, cloud) :
          cloud' = end.dir /\ Return(end.returned)
    /\ UNCHANGED <<local, backup_dir, clock, dry_run, last_sync, comparisons,
                   idx, results, fs0>>
    /\ UNCHANGED aux

\* MANUAL (no branch of the if): return False
RcManual ==
    /\ pc = "rc_apply"
    /\ call.strategy = "manual"
    /\ Return("false")
    /\ UNCHANGED <<local, cloud, backup_dir, clock, dry_run, last_sync,
                   comparisons, idx, results, fs0>>
    /\ UNCHANGED aux

---------------------------------------------------------------------------
(* The specification: one call of sync_files or of resolve_conflict on any *)
(* pair of directories of regular files                                    *)

SyncLastSyncValues == {ls \in LastSyncValues : ls.kind # "invalid"}

Init ==
    /\ local \in FileDirs("local")
    /\ cloud \in FileDirs("cloud")
    /\ backup_dir \in {NoBackups, [exists |-> TRUE, files |-> {}]}
    /\ clock = 1
    /\ pc = "idle"
    /\ dry_run = FALSE
    /\ last_sync = [kind |-> "none", ts |-> 0]
    /\ comparisons = <<>>
    /\ idx = 0
    /\ results = NoResults
    /\ fs0 = Snapshot
    /\ call = NoCall
    /\ AuxInit

\* Time passes between the calls, and in resolve_conflict between the two
\* readings of the clock.
Tick ==
    /\ pc \in {"idle", "rc_apply"}
    /\ clock < MaxClock
    /\ clock' = clock + 1
    /\ fs0' = fs0
    /\ UNCHANGED <<local, cloud, backup_dir, pc, dry_run, last_sync,
                   comparisons, idx, results, call>>
    /\ UNCHANGED aux

Next ==
    \/ Tick
    \/ \E dry \in BOOLEAN, ls \in SyncLastSyncValues : SyncFiles(dry, ls)
    \/ SyncDryRun
    \/ SyncBackup
    \/ SyncCopy
    \/ SyncConflict
    \/ SyncSkip
    \/ SyncReturn
    \/ \E f \in FileNames, strategy \in Strategies : ResolveConflict(f, strategy)
    \/ RcMkdir
    \/ RcBackupLocal
    \/ RcBackupCloud
    \/ RcKeepLocal
    \/ RcKeepCloud
    \/ RcRenameLocal
    \/ RcRenameCloud
    \/ RcManual

Spec == Init /\ [][Next]_vars

---------------------------------------------------------------------------
(* Claims about sync_files and resolve_conflict (Spec) *)

InSync == pc \in {"loop", "copy", "returned"}

InResolve == pc \in {"rc_mkdir", "rc_local", "rc_cloud", "rc_apply",
                     "rc_rename_cloud", "rc_done"}

\* backup_dir holds a backup of the given kind of f's version of `label` side
\* as it was when the call started
HasBackupOf(f, label, suffix) ==
    \E b \in backup_dir.files :
        /\ b.filename = f /\ b.label = label /\ b.suffix = suffix
        /\ b.bytes = (IF label = "local" THEN fs0.local ELSE fs0.cloud).files[f].bytes

\* C1: in a run that is not a dry run, a destination file that existed is
\* overwritten only when backup_dir holds a backup of its previous bytes.
C1_BackupBeforeOverwrite ==
    InSync /\ ~dry_run =>
        \A f \in FileNames :
            /\ fs0.cloud.files[f].kind = "file" /\ cloud.files[f] # fs0.cloud.files[f]
                  => HasBackupOf(f, "cloud", "backup")
            /\ fs0.local.files[f].kind = "file" /\ local.files[f] # fs0.local.files[f]
                  => HasBackupOf(f, "local", "backup")

\* C2: resolve_conflict on two existing files, whatever the strategy: once
\* the local or the cloud file is changed or renamed, and when the call
\* returns, the call has written exactly two .conflict files, which hold the
\* local and the cloud bytes of before the call.
C2_BackupsBeforeResolution ==
    /\ InResolve
    /\ fs0.local.files[call.filename].kind = "file"
    /\ fs0.cloud.files[call.filename].kind = "file"
    /\ \/ local # fs0.local
       \/ cloud # fs0.cloud
       \/ call.returned \in {"true", "false"}
    => /\ HasBackupOf(call.filename, "local", "conflict")
       /\ HasBackupOf(call.filename, "cloud", "conflict")
       /\ call.writes = 2
       /\ Cardinality(backup_dir.files) = Cardinality(fs0.backup_dir.files) + 2

C2_Witness ==
    /\ pc = "rc_done"
    /\ call.strategy = "keep_both"
    /\ call.returned = "true"
    /\ fs0.local.files[call.filename].kind = "file"
    /\ fs0.cloud.files[call.filename].kind = "file"
    /\ local.files[call.filename] = NoEntry
    /\ cloud.files[call.filename] = NoEntry
    /\ Cardinality(backup_dir.files) = 2

\* C3: a dry run changes nothing: local_dir, cloud_dir and backup_dir stay
\* as they were when the call started, and a missing backup_dir stays missing.
C3_DryRunChangesNothing ==
    InSync /\ dry_run =>
        /\ local = fs0.local
        /\ cloud = fs0.cloud
        /\ backup_dir = fs0.backup_dir

C3_Witness ==
    /\ pc = "returned" /\ dry_run
    /\ Len(results.actions) = 2
    /\ results.actions[1].action = "copy_to_cloud" /\ results.actions[1].dry_run
    /\ results.actions[2].action = "copy_to_local" /\ results.actions[2].dry_run
    /\ IsFile(local, 1) /\ IsFile(cloud, 1)
    /\ ~DirExists(local) \/ ~IsFile(local, 2)
    /\ ~backup_dir.exists

\* the rows of the comparison the loop has dealt with
Done == {i \in DOMAIN comparisons : i < idx}

\* C4: a file classified conflict is left alone in a dry run and in a real
\* one: its local and cloud copies are unchanged, no backup of it is written,
\* its entry has needs_resolution (and no success), and conflicts counts it.
C4_ConflictLeftAlone ==
    InSync =>
        /\ \A i \in DOMAIN comparisons :
              comparisons[i].action = "conflict" =>
                  LET f == comparisons[i].filename
                  IN  /\ local.files[f] = fs0.local.files[f]
                      /\ cloud.files[f] = fs0.cloud.files[f]
                      /\ \A b \in backup_dir.files : b.filename # f
                      /\ i \in Done =>
                            /\ results.actions[i].filename = f
                            /\ results.actions[i].needs_resolution
                            /\ ~results.actions[i].success
        /\ results.conflicts =
              Cardinality({i \in Done : comparisons[i].action = "conflict"})

C4_Witness ==
    /\ pc = "returned" /\ ~dry_run
    /\ Len(comparisons) = 2
    /\ comparisons[1].action = "copy_to_cloud"
    /\ comparisons[2].action = "conflict"
    /\ results.actions[1].success
    /\ results.actions[2].needs_resolution
    /\ results.conflicts = 1 /\ results.files_synced = 1

\* C10: the success flag sync_files returns is false exactly when the
\* transfer of at least one file failed; conflicts have no influence on it.
C10_SuccessIffNoTransferFailed ==
    pc = "returned" =>
        (results.success <=>
            ~\E i \in DOMAIN results.actions :
                /\ results.actions[i].action \in {"copy_to_cloud", "copy_to_local"}
                /\ ~results.actions[i].success)

\* the rows of the comparison that are transfers
Transfers == {i \in DOMAIN comparisons :
                 comparisons[i].action \in {"copy_to_cloud", "copy_to_local"}}

\* the entries of results.actions that are transfers that failed
FailedTransfers ==
    {i \in DOMAIN results.actions :
        /\ results.actions[i].action \in {"copy_to_cloud", "copy_to_local"}
        /\ ~results.actions[i].success}

\* C11: a transfer that fails does not end the run: when sync_files returns,
\* every row of the comparison (one per file of local or cloud), also those
\* after the failing one, has its own action entry, in the order of the
\* names, and every failed transfer has its entry in results.errors.
C11_FailureDoesNotAbort ==
    pc = "returned" =>
        /\ Len(results.actions) = Len(comparisons)
        /\ \A i \in DOMAIN comparisons :
              /\ results.actions[i].filename = comparisons[i].filename
              /\ results.actions[i].action = comparisons[i].action
        /\ \A f \in FileNames :
              IsFile(fs0.local, f) \/ IsFile(fs0.cloud, f) =>
                  \E i \in DOMAIN results.actions : results.actions[i].filename = f
        /\ Len(results.errors) = Cardinality(FailedTransfers)
        /\ \A i \in FailedTransfers :
              \E e \in DOMAIN results.errors :
                  /\ results.errors[e].filename = results.actions[i].filename
                  /\ results.errors[e].action = results.actions[i].action

C11_Witness ==
    /\ pc = "returned" /\ ~dry_run
    /\ Len(comparisons) = 2
    /\ results.actions[1].action = "copy_to_cloud" /\ ~results.actions[1].success
    /\ results.actions[2].action = "copy_to_local" /\ results.actions[2].success
    /\ Len(results.errors) = 1 /\ results.errors[1].filename = 1
    /\ results.files_synced = 1

\* C12: after a run that is not a dry run and in which no transfer failed,
\* every file classified copy_to_cloud or copy_to_local is on both sides, the
\* destination with the bytes and the modification time of the source, the
\* source as it was before the run; files_synced is the number of these files.
C12_PostSyncState ==
    pc = "returned" /\ ~dry_run /\ FailedTransfers = {} =>
        /\ \A i \in Transfers :
              LET f == comparisons[i].filename
                  to_cloud == comparisons[i].action = "copy_to_cloud"
                  source == IF to_cloud THEN local.files[f] ELSE cloud.files[f]
                  dest == IF to_cloud THEN cloud.files[f] ELSE local.files[f]
                  before == IF to_cloud THEN fs0.local.files[f] ELSE fs0.cloud.files[f]
              IN  /\ IsFile(local, f) /\ IsFile(cloud, f)
                  /\ dest.bytes = source.bytes
                  /\ dest.mtime = source.mtime
                  /\ source = before
        /\ results.files_synced = Cardinality(Transfers)

C12_Witness ==
    /\ pc = "returned" /\ ~dry_run
    /\ IsFile(fs0.local, 1) /\ ~IsFile(fs0.cloud, 1)
    /\ IsFile(fs0.cloud, 2) /\ ~IsFile(fs0.local, 2)
    /\ results.files_synced = 2 /\ results.conflicts = 0
    /\ IsFile(local, 1) /\ IsFile(cloud, 1) /\ IsFile(local, 2) /\ IsFile(cloud, 2)
    /\ cloud.files[1] = fs0.local.files[1] /\ local.files[2] = fs0.cloud.files[2]

\* resolve_conflict was called on two existing files
BothExisted ==
    /\ IsFile(fs0.local, call.filename)
    /\ IsFile(fs0.cloud, call.filename)

\* the call of resolve_conflict with the given strategy is over, and it did
\* not end in an exception
Resolved(strategy) ==
    /\ pc = "rc_done"
    /\ call.strategy = strategy
    /\ call.returned # "raised"

\* the files the call has added to backup_dir
NewBackups == backup_dir.files \ fs0.backup_dir.files

\* C15: resolve_conflict on two existing files, when it returns: with
\* keep_local it returns true, the cloud file has the local bytes of before
\* the call and the local file is unchanged; with keep_cloud it returns true,
\* the local file has the cloud bytes of before the call and the cloud file
\* is unchanged.
C15_KeepOneSide ==
    LET f == call.filename
    IN  /\ Resolved("keep_local") /\ BothExisted =>
              /\ call.returned = "true"
              /\ IsFile(cloud, f)
              /\ cloud.files[f].bytes = fs0.local.files[f].bytes
              /\ local.files[f] = fs0.local.files[f]
        /\ Resolved("keep_cloud") /\ BothExisted =>
              /\ call.returned = "true"
              /\ IsFile(local, f)
              /\ local.files[f].bytes = fs0.cloud.files[f].bytes
              /\ cloud.files[f] = fs0.cloud.files[f]

C15_Witness ==
    /\ Resolved("keep_local") /\ BothExisted
    /\ call.returned = "true"
    /\ cloud.files[call.filename].bytes = InitialBytes("local", call.filename)
    /\ fs0.cloud.files[call.filename].bytes = InitialBytes("cloud", call.filename)
    /\ local = fs0.local

\* C16: resolve_conflict with keep_both on two existing files, when it
\* returns: it returns true, neither local_path nor cloud_path is occupied,
\* and there are four files from the two: the local file renamed
\* <stem>.<timestamp>.local<ext> in the local directory with the local bytes,
\* the cloud file renamed <stem>.<timestamp>.cloud<ext> in the cloud directory
\* with the cloud bytes, and the two conflict backups in backup_dir.
C16_KeepBoth ==
    Resolved("keep_both") /\ BothExisted =>
        LET f == call.filename
        IN  /\ call.returned = "true"
            /\ local.files[f] = NoEntry
            /\ cloud.files[f] = NoEntry
            /\ \E r \in local.renamed :
                  /\ local.renamed = fs0.local.renamed \cup {r}
                  /\ r.filename = f /\ r.label = "local"
                  /\ r.timestamp = Timestamp
                  /\ r.bytes = fs0.local.files[f].bytes
            /\ \E r \in cloud.renamed :
                  /\ cloud.renamed = fs0.cloud.renamed \cup {r}
                  /\ r.filename = f /\ r.label = "cloud"
                  /\ r.timestamp = Timestamp
                  /\ r.bytes = fs0.cloud.files[f].bytes
            /\ HasBackupOf(f, "local", "conflict")
            /\ HasBackupOf(f, "cloud", "conflict")
            /\ Cardinality(NewBackups) = 2
            /\ \A g \in FileNames \ {f} :
                  local.files[g] = fs0.local.files[g] /\ cloud.files[g] = fs0.cloud.files[g]

C16_Witness ==
    /\ Resolved("keep_both") /\ BothExisted
    /\ call.returned = "true"
    /\ Cardinality(local.renamed) = 1 /\ Cardinality(cloud.renamed) = 1
    /\ Cardinality(NewBackups) = 2
    /\ \E r \in local.renamed : r.timestamp # call.timestamp

\* C17: resolve_conflict with manual changes neither the local nor the cloud
\* directory at any point of the call (bytes, mtimes and names as they were);
\* when it returns from a call on two existing files it has returned false
\* and its only effect is the two conflict backups in backup_dir.
C17_ManualChangesNothing ==
    /\ InResolve /\ call.strategy = "manual" =>
          local = fs0.local /\ cloud = fs0.cloud
    /\ Resolved("manual") /\ BothExisted =>
          /\ call.returned = "false"
          /\ HasBackupOf(call.filename, "local", "conflict")
          /\ HasBackupOf(call.filename, "cloud", "conflict")
          /\ Cardinality(NewBackups) = 2
          /\ \A b \in NewBackups : b.filename = call.filename /\ b.suffix = "conflict"

C17_Witness ==
    /\ Resolved("manual") /\ BothExisted
    /\ call.returned = "false"
    /\ Cardinality(NewBackups) = 2
    /\ ~fs0.backup_dir.exists /\ backup_dir.exists

---------------------------------------------------------------------------
(* Claims about compare_directories (CompareSpec) *)

Compared == pc = "compared"

Rows == {comparisons[i] : i \in DOMAIN comparisons}

RowsOf(f) == {c \in Rows : c.filename = f}

\* f is classified, and as action a
Classified(f, a) == \E c \in RowsOf(f) : c.action = a

OnBothSides(f) == IsFile(local, f) /\ IsFile(cloud, f)

LocalMtime(f) == local.files[f].mtime

CloudMtime(f) == cloud.files[f].mtime

\* mtime is more than one second after t / not after t / in between
WellAfter(mtime, t) == mtime > t + TicksPerSecond

NotAfter(mtime, t) == mtime <= t

WithinSlack(mtime, t) == mtime > t /\ mtime <= t + TicksPerSecond

\* C5: a file on both sides, last_sync known, each side's mtime either more
\* than one second after last_sync (modified) or not after it (unmodified):
\* both modified -> conflict, only local -> copy_to_cloud, only cloud ->
\* copy_to_local, neither -> skip.
C5_ThreeWayClassification ==
    Compared /\ last_sync.kind = "iso" =>
        \A f \in FileNames :
            LET t == last_sync.ts
                l == LocalMtime(f)
                c == CloudMtime(f)
            IN  /\ OnBothSides(f)
                /\ WellAfter(l, t) \/ NotAfter(l, t)
                /\ WellAfter(c, t) \/ NotAfter(c, t)
                => Classified(f,
                      IF WellAfter(l, t) /\ WellAfter(c, t) THEN "conflict"
                      ELSE IF WellAfter(l, t) THEN "copy_to_cloud"
                      ELSE IF WellAfter(c, t) THEN "copy_to_local"
                      ELSE "skip")

C5_Witness ==
    /\ Compared /\ last_sync.kind = "iso"
    /\ OnBothSides(1) /\ OnBothSides(2)
    /\ WellAfter(LocalMtime(1), last_sync.ts) /\ WellAfter(CloudMtime(1), last_sync.ts)
    /\ WellAfter(LocalMtime(2), last_sync.ts) /\ NotAfter(CloudMtime(2), last_sync.ts)
    /\ Classified(1, "conflict") /\ Classified(2, "copy_to_cloud")

\* C6 as claimed: with last_sync known a side counts as modified only when
\* its mtime is more than one second after last_sync: both mtimes within
\* (last_sync, last_sync + 1s] -> skip; local beyond and cloud within ->
\* copy_to_cloud.
C6_OneSecondSlack ==
    Compared /\ last_sync.kind = "iso" =>
        \A f \in FileNames :
            LET t == last_sync.ts
                l == LocalMtime(f)
                c == CloudMtime(f)
            IN  OnBothSides(f) =>
                  /\ WithinSlack(l, t) /\ WithinSlack(c, t) => Classified(f, "skip")
                  /\ WellAfter(l, t) /\ WithinSlack(c, t) => Classified(f, "copy_to_cloud")

\* C6 as amended: a side counts as modified as soon as its mtime is strictly
\* greater than last_sync, there is no slack: both mtimes within
\* (last_sync, last_sync + 1s] -> conflict; local beyond and cloud within ->
\* conflict; and a side whose mtime is not after last_sync is unmodified.
C6_NoSlack ==
    Compared /\ last_sync.kind = "iso" =>
        \A f \in FileNames :
            LET t == last_sync.ts
                l == LocalMtime(f)
                c == CloudMtime(f)
            IN  OnBothSides(f) =>
                  /\ WithinSlack(l, t) /\ WithinSlack(c, t) => Classified(f, "conflict")
                  /\ WellAfter(l, t) /\ WithinSlack(c, t) => Classified(f, "conflict")
                  /\ Classified(f,
                        IF l > t /\ c > t THEN "conflict"
                        ELSE IF l > t THEN "copy_to_cloud"
                        ELSE IF c > t THEN "copy_to_local"
                        ELSE "skip")

C6_Witness ==
    /\ Compared /\ last_sync.kind = "iso"
    /\ OnBothSides(1) /\ OnBothSides(2)
    /\ WithinSlack(LocalMtime(1), last_sync.ts) /\ WithinSlack(CloudMtime(1), last_sync.ts)
    /\ WellAfter(LocalMtime(2), last_sync.ts) /\ WithinSlack(CloudMtime(2), last_sync.ts)
    /\ Classified(1, "conflict") /\ Classified(2, "conflict")

\* C7: whatever last_sync is, a file that is only in local is classified
\* copy_to_cloud and a file that is only in cloud copy_to_local, never
\* conflict or skip.
C7_OneSided ==
    Compared =>
        \A f \in FileNames :
            /\ IsFile(local, f) /\ ~IsFile(cloud, f) =>
                  Classified(f, "copy_to_cloud") /\ Cardinality(RowsOf(f)) = 1
            /\ IsFile(cloud, f) /\ ~IsFile(local, f) =>
                  Classified(f, "copy_to_local") /\ Cardinality(RowsOf(f)) = 1

C7_Witness ==
    /\ Compared /\ last_sync.kind = "iso"
    /\ IsFile(local, 1) /\ ~IsFile(cloud, 1) /\ NotAfter(LocalMtime(1), last_sync.ts)
    /\ IsFile(cloud, 2) /\ ~IsFile(local, 2) /\ NotAfter(CloudMtime(2), last_sync.ts)
    /\ Classified(1, "copy_to_cloud") /\ Classified(2, "copy_to_local")

\* C8: with last_sync unknown (absent or unparsable) a file on both sides is
\* classified by its two mtimes alone: local newer -> copy_to_cloud, cloud
\* newer -> copy_to_local, equal -> skip; nothing is classified conflict.
C8_NoLastSync ==
    Compared /\ last_sync.kind # "iso" =>
        /\ \A f \in FileNames :
              OnBothSides(f) =>
                  Classified(f,
                      IF LocalMtime(f) > CloudMtime(f) THEN "copy_to_cloud"
                      ELSE IF CloudMtime(f) > LocalMtime(f) THEN "copy_to_local"
                      ELSE "skip")
        /\ \A c \in Rows : c.action # "conflict"

C8_Witness ==
    /\ Compared /\ last_sync.kind = "none"
    /\ OnBothSides(1) /\ OnBothSides(2)
    /\ LocalMtime(1) = CloudMtime(1) /\ LocalMtime(2) > CloudMtime(2)
    /\ Classified(1, "skip") /\ Classified(2, "copy_to_cloud")

---------------------------------------------------------------------------
(* cmd_sync (gamesync.py): the game's last_sync is read from its            *)
(* configuration, sync_files runs, and last_sync is replaced afterwards.   *)
(* The conflicts are left to sync_files: --force is given, or every        *)
(* conflict is skipped at the prompt (choice 4).  A dry run may be         *)
(* followed by the real run it previews.                                   *)

\* The directories cmd_sync calls sync_files on: the game is passed over
\* when local_path is missing, and the cloud directory is created.
CmdDirs(side) == {d \in FileDirs(side) : DirExists(d)}

\* what cmd_sync prints of an entry of results['actions']
Pairs(actions) ==
    [i \in DOMAIN actions |->
        [filename |-> actions[i].filename, action |-> actions[i].action]]

CmdInit ==
    /\ local \in CmdDirs("local")
    /\ cloud \in CmdDirs("cloud")
    /\ backup_dir = [exists |-> TRUE, files |-> {}]
    /\ clock = 1
    /\ pc = "idle"
    /\ dry_run = FALSE
    /\ game_config \in {[last_sync |-> ls] : ls \in SyncLastSyncValues}
    /\ last_sync = game_config.last_sync
    /\ comparisons = <<>>
    /\ idx = 0
    /\ results = NoResults
    /\ fs0 = Snapshot
    /\ call = NoCall
    /\ preview = NoPreview
    /\ detected = "none"
    /\ dsync = NoDirectional
    /\ vdf = NoVdf
    /\ detector = NoDetector
    /\ saves = NoSaves
    /\ cmd = NoCmd

\* last_sync = game_config['sync']['last_sync']; sync_files(..., last_sync,
\* args.dry_run)
CmdSync(dry) ==
    /\ dry => ~preview.ran
    /\ SyncFiles(dry, game_config.last_sync)

\* "Update last sync time if not dry run and successful": the new value is
\* datetime.now().isoformat(); save_game_config may fail (a warning).
CmdSyncUpdate ==
    /\ pc = "returned"
    /\ IF ~dry_run /\ results.success /\ results.conflicts = 0
       THEN \E saved \in BOOLEAN :
               game_config' =
                   IF saved
                   THEN [game_config EXCEPT
                            !.last_sync = [kind |-> "iso", ts |-> clock]]
                   ELSE game_config
       ELSE game_config' = game_config
    /\ preview' = IF dry_run
                  THEN [ran |-> TRUE, actions |-> Pairs(results.actions)]
                  ELSE preview
    /\ pc' = IF dry_run THEN "idle" ELSE "cmd_done"
    /\ UNCHANGED <<local, cloud, backup_dir, clock, dry_run, last_sync,
                   comparisons, idx, results, fs0, call, detected, dsync, vdf,
                   detector, saves, cmd>>

CmdNext ==
    \/ Tick
    \/ \E dry \in BOOLEAN : CmdSync(dry)
    \/ SyncDryRun
    \/ SyncBackup
    \/ SyncCopy
    \/ SyncConflict
    \/ SyncSkip
    \/ SyncReturn
    \/ CmdSyncUpdate

CmdSpec == CmdInit /\ [][CmdNext]_vars

---------------------------------------------------------------------------
(* Claims about cmd_sync (CmdSpec) *)

\* C13: a real run of sync_files on the filesystem state and with the
\* last_sync of the dry run before it reports the same sequence of
\* (filename, action) pairs as the dry run did.
C13_DryRunSameClassification ==
    pc \in {"returned", "cmd_done"} /\ ~dry_run /\ preview.ran =>
        Pairs(results.actions) = preview.actions

C13_Witness ==
    /\ pc = "cmd_done" /\ ~dry_run /\ preview.ran
    /\ Len(preview.actions) = 2
    /\ preview.actions[1].action = "conflict"
    /\ preview.actions[2].action = "copy_to_local"
    /\ results.actions[2].success
    /\ local # fs0.local

\* C14: the persisted last_sync differs from the one the run read only
\* after a run that was not a dry run, reported no conflict and had no
\* failed transfer (no entry in errors).
C14_LastSyncOnlyAfterCleanRun ==
    game_config.last_sync # last_sync =>
        /\ pc = "cmd_done"
        /\ ~dry_run
        /\ results.conflicts = 0
        /\ results.errors = <<>>
        /\ FailedTransfers = {}

---------------------------------------------------------------------------
(* ConflictResolver.detect_conflict *)

\* "Allow 2 second tolerance for filesystem timestamp precision"
ToleranceSeconds == 2

\* the second added to last_sync_ts
SlackSeconds == 1

DetectTimes == 1..MaxDetectTime

\* Path.exists() on directory / filename: a file or a directory
Exists(dir, f) == DirExists(dir) /\ dir.files[f].kind # "none"

Abs(n) == IF n < 0 THEN 0 - n ELSE n

\* bool as the value a call returned
Returned(b) == IF b THEN "true" ELSE "false"

\* A directory in which the first name is anything: absent, a directory, or a
\* file modified at any of DetectTimes.
DetectDirs(side) ==
    {MissingDir} \cup
    {[state |-> "ok",
      files |-> [f \in FileNames |-> IF f = 1 THEN e ELSE NoEntry],
      renamed |-> {}] :
        e \in {NoEntry, SubDir}
                \cup {RegularFile(InitialBytes(side, 1), t) : t \in DetectTimes}}

DetectLastSyncValues ==
    {[kind |-> "none", ts |-> 0], [kind |-> "invalid", ts |-> 0]}
        \cup {[kind |-> "iso", ts |-> t] : t \in DetectTimes}

DetInit ==
    /\ local \in DetectDirs("local")
    /\ cloud \in DetectDirs("cloud")
    /\ last_sync \in DetectLastSyncValues
    /\ backup_dir = NoBackups
    /\ clock = 1
    /\ pc = "idle"
    /\ dry_run = FALSE
    /\ comparisons = <<>>
    /\ idx = 0
    /\ results = NoResults
    /\ fs0 = [local |-> local, cloud |-> cloud, backup_dir |-> NoBackups]
    /\ call = NoCall
    /\ AuxInit

\* DetectConflict with the comparison of SyncEngine._determine_action: no
\* second is added to last_sync
DetectConflictWithoutSlack(f) ==
    /\ pc = "idle"
    /\ detected' =
          IF ~Exists(local, f) \/ ~Exists(cloud, f) THEN "false"
          ELSE LET local_mtime == local.files[f].mtime
                   cloud_mtime == cloud.files[f].mtime
               IN  IF last_sync.kind = "none"
                   THEN Returned(Abs(local_mtime - cloud_mtime)
                                    > ToleranceSeconds * TicksPerSecond)
                   ELSE IF last_sync.kind = "invalid" THEN "raised"
                   ELSE Returned(/\ local_mtime > last_sync.ts
                                 /\ cloud_mtime > last_sync.ts)
    /\ call' = [NoCall EXCEPT !.filename = f]
    /\ pc' = "detected"
    /\ UNCHANGED <<local, cloud, backup_dir, clock, dry_run, last_sync,
                   comparisons, idx, results, fs0, game_config, preview,
                   dsync, vdf, detector, saves, cmd>>

\* detect_conflict(local_dir / f, cloud_dir / f, last_sync); fromisoformat
\* raises on a last_sync that does not parse, and nothing catches it.
DetectConflict(f) ==
    /\ pc = "idle"
    /\ detected' =
          IF ~Exists(local, f) \/ ~Exists(cloud, f) THEN "false"
          ELSE LET local_mtime == local.files[f].mtime
                   cloud_mtime == cloud.files[f].mtime
               IN  IF last_sync.kind = "none"
                   THEN Returned(Abs(local_mtime - cloud_mtime)
                                    > ToleranceSeconds * TicksPerSecond)
                   ELSE IF last_sync.kind = "invalid" THEN "raised"
                   ELSE LET last_sync_ts == last_sync.ts
                            local_newer ==
                                local_mtime > last_sync_ts + SlackSeconds * TicksPerSecond
                            cloud_newer ==
                                cloud_mtime > last_sync_ts + SlackSeconds * TicksPerSecond
                        IN  Returned(local_newer /\ cloud_newer)
    /\ call' = [NoCall EXCEPT !.filename = f]
    /\ pc' = "detected"
    /\ UNCHANGED <<local, cloud, backup_dir, clock, dry_run, last_sync,
                   comparisons, idx, results, fs0, game_config, preview,
                   dsync, vdf, detector, saves, cmd>>

DetNext == \E f \in FileNames : DetectConflict(f)

DetectSpec == DetInit /\ [][DetNext]_vars

\* C18: detect_conflict returns false when either file is missing; on two
\* files, with last_sync given, it returns true exactly when both mtimes are
\* more than one second after last_sync; on two files, without last_sync, it
\* returns true exactly when the mtimes are more than two seconds apart.
C18_DetectConflict ==
    pc = "detected" =>
        LET f == call.filename
            l == LocalMtime(f)
            c == CloudMtime(f)
        IN  /\ local.files[f].kind = "none" \/ cloud.files[f].kind = "none" =>
                  detected = "false"
            /\ OnBothSides(f) /\ last_sync.kind = "iso" =>
                  detected = Returned(l > last_sync.ts + TicksPerSecond
                                      /\ c > last_sync.ts + TicksPerSecond)
            /\ OnBothSides(f) /\ last_sync.kind = "none" =>
                  detected = Returned(l - c > 2 * TicksPerSecond
                                      \/ c - l > 2 * TicksPerSecond)

C18_Witness ==
    /\ pc = "detected" /\ call.filename = 1
    /\ OnBothSides(1) /\ last_sync.kind = "iso"
    /\ LocalMtime(1) = last_sync.ts + TicksPerSecond + 1
    /\ CloudMtime(1) > LocalMtime(1) + TicksPerSecond
    /\ detected = "true"

---------------------------------------------------------------------------
(* SyncEngine.sync_to_cloud and SyncEngine.sync_from_cloud: the directional *)
(* sync.  The two methods are called by the tests (tests/test_sync.py,     *)
(* tests/test_integration.py) and are described in the specification, but  *)
(* sync_engine.py does not define them: they are modelled as described, on  *)
(* the filesystem and with the copy_file of the code.                       *)

Directions == {"to_cloud", "from_cloud"}

\* the directory files are copied from, and the one they are copied to
SourceDir(direction) == IF direction = "to_cloud" THEN local ELSE cloud

DestDir(direction) == IF direction = "to_cloud" THEN cloud ELSE local

DestName(direction) == IF direction = "to_cloud" THEN "cloud" ELSE "local"

DirInit ==
    /\ local \in FileDirs("local")
    /\ cloud \in FileDirs("cloud")
    /\ backup_dir = NoBackups
    /\ clock = 1
    /\ pc = "idle"
    /\ dry_run = FALSE
    /\ last_sync = [kind |-> "none", ts |-> 0]
    /\ comparisons = <<>>
    /\ idx = 0
    /\ results = NoResults
    /\ fs0 = Snapshot
    /\ call = NoCall
    /\ AuxInit

\* sync_to_cloud(local_dir, cloud_dir, force, dry_run) and sync_from_cloud:
\* the files of the source directory, in the order of their names
SyncDirectional(direction, force, dry) ==
    /\ pc = "idle"
    /\ dsync' = [NoDirectional EXCEPT !.direction = direction, !.force = force]
    /\ dry_run' = dry
    /\ comparisons' = Sorted(GetFiles(SourceDir(direction)))
    /\ idx' = 1
    /\ fs0' = Snapshot
    /\ pc' = "d_loop"
    /\ UNCHANGED <<local, cloud, backup_dir, clock, last_sync, results, call,
                   game_config, preview, detected, vdf, detector, saves, cmd>>

\* why a file is not copied: "cloud is newer", "local is newer" or "files
\* are equal"
SkipReason(direction, source, dest) ==
    IF dest.mtime > source.mtime
    THEN IF direction = "to_cloud" THEN "cloud is newer" ELSE "local is newer"
    ELSE "files are equal"

\* ShouldCopy with >= for >: a destination as new as the source is overwritten
ShouldCopyEqual(force, source, dest) ==
    \/ force
    \/ dest.kind = "none"
    \/ source.mtime >= dest.mtime

\* The newer-wins check: copy when forced, when the destination is absent,
\* or when the source is strictly newer than the destination.
ShouldCopy(force, source, dest) ==
    \/ force
    \/ dest.kind = "none"
    \/ source.mtime > dest.mtime

\* one file of the source directory: copied, or skipped with its reason
DirectionalStep ==
    /\ pc = "d_loop"
    /\ idx <= Len(comparisons)
    /\ LET f == comparisons[idx]
           source == SourceDir(dsync.direction).files[f]
           dest == DestDir(dsync.direction).files[f]
       IN  IF ShouldCopy(dsync.force, source, dest)
           THEN IF dry_run
                THEN /\ dsync' = [dsync EXCEPT !.total_copied = @ + 1]
                     /\ UNCHANGED <<local, cloud>>
                ELSE \E outcome \in Outcomes :
                        /\ IF dsync.direction = "to_cloud"
                           THEN /\ cloud' = CopyFile(source, cloud, f, outcome)
                                /\ local' = local
                           ELSE /\ local' = CopyFile(source, local, f, outcome)
                                /\ cloud' = cloud
                        /\ dsync' = IF CopySucceeds(outcome)
                                    THEN [dsync EXCEPT !.total_copied = @ + 1]
                                    ELSE [dsync EXCEPT !.total_errors = @ + 1]
           ELSE /\ dsync' = [dsync EXCEPT
                        !.total_skipped = @ + 1,
                        !.skipped = Append(@,
                            [filename |-> f,
                             reason |-> SkipReason(dsync.direction, source, dest)])]
                /\ UNCHANGED <<local, cloud>>
    /\ idx' = idx + 1
    /\ UNCHANGED <<backup_dir, clock, pc, dry_run, last_sync, comparisons,
                   results, fs0, call, game_config, preview, detected, vdf,
                   detector, saves, cmd>>

DirectionalReturn ==
    /\ pc = "d_loop"
    /\ idx > Len(comparisons)
    /\ pc' = "d_returned"
    /\ UNCHANGED <<local, cloud, backup_dir, clock, dry_run, last_sync,
                   comparisons, idx, results, fs0, call>>
    /\ UNCHANGED aux

DirNext ==
    \/ \E direction \in Directions, force \in BOOLEAN, dry \in BOOLEAN :
          SyncDirectional(direction, force, dry)
    \/ DirectionalStep
    \/ DirectionalReturn

DirSpec == DirInit /\ [][DirNext]_vars

\* The directories of the call as they were when it started
SourceBefore == IF dsync.direction = "to_cloud" THEN fs0.local ELSE fs0.cloud

DestBefore == IF dsync.direction = "to_cloud" THEN fs0.cloud ELSE fs0.local

\* the source files whose destination is as new as they are, or newer
Guarded ==
    {f \in FileNames :
        /\ IsFile(SourceBefore, f) /\ IsFile(DestBefore, f)
        /\ DestBefore.files[f].mtime >= SourceBefore.files[f].mtime}

\* C19: in a directional sync without force, a destination file whose mtime
\* is newer than or equal to the source's is never overwritten; once dealt
\* with it is in skipped with the reason "cloud is newer" / "local is newer"
\* (newer) or "files are equal" (equal), and total_skipped counts these
\* files.  With force (and no dry run) no file is skipped and every source
\* file is copied over its destination, unless the copy itself fails
\* (total_errors).
C19_DirectionalSafety ==
    pc \in {"d_loop", "d_returned"} =>
        /\ ~dsync.force =>
              /\ \A f \in Guarded :
                    /\ DestDir(dsync.direction).files[f] = DestBefore.files[f]
                    /\ pc = "d_returned" =>
                          \E i \in DOMAIN dsync.skipped :
                              /\ dsync.skipped[i].filename = f
                              /\ dsync.skipped[i].reason =
                                    IF DestBefore.files[f].mtime > SourceBefore.files[f].mtime
                                    THEN DestName(dsync.direction) \o " is newer"
                                    ELSE "files are equal"
              /\ pc = "d_returned" => dsync.total_skipped = Cardinality(Guarded)
        /\ dsync.force /\ ~dry_run /\ pc = "d_returned" =>
              /\ dsync.total_skipped = 0
              /\ dsync.total_copied + dsync.total_errors =
                    Cardinality(GetFiles(SourceBefore))
              /\ dsync.total_errors = 0 =>
                    \A f \in GetFiles(SourceBefore) :
                        DestDir(dsync.direction).files[f] = SourceBefore.files[f]
        /\ SourceDir(dsync.direction) = SourceBefore

C19_Witness ==
    /\ pc = "d_returned" /\ ~dsync.force /\ ~dry_run
    /\ dsync.direction = "to_cloud"
    /\ dsync.total_skipped = 2
    /\ dsync.skipped[1].reason = "cloud is newer"
    /\ dsync.skipped[2].reason = "files are equal"
    /\ cloud = fs0.cloud

---------------------------------------------------------------------------
(* VDFParser and ShortcutsParser (src/src/vdf_parser.py).  The file is a   *)
(* sequence of bytes; position p of the code is position p + 1 here.       *)

TYPE_SECTION == 0

TYPE_STRING == 1

TYPE_INT32 == 2

TYPE_END == 8

\* the keys ShortcutsParser looks up, in ASCII
ShortcutsKey == <<115, 104, 111, 114, 116, 99, 117, 116, 115>>

AppNameKey == <<65, 112, 112, 78, 97, 109, 101>>

LowerAppNameKey == <<97, 112, 112, 110, 97, 109, 101>>

ExeKey == <<69, 120, 101>>

LowerExeKey == <<101, 120, 101>>

StartDirKey == <<83, 116, 97, 114, 116, 68, 105, 114>>

AppIdKey == <<97, 112, 112, 105, 100>>

\* The values of a parsed dictionary: a str, an int, or a dict (the sequence
\* of its items in insertion order).
StringValue(str) == [type |-> "string", str |-> str, int |-> 0, items |-> <<>>]

IntValue(n) == [type |-> "int", str |-> <<>>, int |-> n, items |-> <<>>]

SectionValue(items) == [type |-> "section", str |-> <<>>, int |-> 0, items |-> items]

\* result[key] = value
Put(result, key, value) ==
    IF \E i \in DOMAIN result : result[i].key = key
    THEN [i \in DOMAIN result |->
            IF result[i].key = key THEN [result[i] EXCEPT !.value = value]
            ELSE result[i]]
    ELSE Append(result, [key |-> key, value |-> value])

\* dict.get(key, default)
Get(items, key, default) ==
    IF \E i \in DOMAIN items : items[i].key = key
    THEN items[CHOOSE i \in DOMAIN items : items[i].key = key].value
    ELSE default

IsAscii(b) == b < 128

\* bytes.decode('utf-8', errors='ignore') of ASCII bytes and lone bytes that
\* are not valid UTF-8: the latter are dropped
Decode(bytes) == SelectSeq(bytes, IsAscii)

\* _read_cstring: the string up to the next NUL (or the end of the data),
\* and the position after the NUL
ReadCString(data, position) ==
    LET nuls == {i \in position..Len(data) : data[i] = 0}
        stop == IF nuls # {} THEN Least(nuls)
                ELSE IF position > Len(data) THEN position
                ELSE Len(data) + 1
    IN  [value |-> Decode(SubSeq(data, position, stop - 1)),
         position |-> stop + 1]

\* struct.unpack('<I', data[position:position + 4]) raises struct.error on
\* fewer than four bytes
CanReadInt32(data, position) == position + 3 <= Len(data)

\* _read_int32: little-endian
ReadInt32(data, position) ==
    data[position] + 256 * data[position + 1] + 65536 * data[position + 2]
        + 16777216 * data[position + 3]

\* _parse_section: the dictionary, the position after the section, whether
\* an unknown type byte was read (it ends the section: break), and whether
\* an exception was raised.
RECURSIVE ParseSection(_, _, _)
ParseSection(data, position, result) ==
    IF position > Len(data)
    THEN [result |-> result, position |-> position,
          unknown |-> FALSE, raised |-> FALSE]
    ELSE
    LET type_byte == data[position]
        key == ReadCString(data, position + 1)
    IN  IF type_byte = TYPE_END
        THEN [result |-> result, position |-> position + 1,
              unknown |-> FALSE, raised |-> FALSE]
        ELSE IF type_byte = TYPE_SECTION
        THEN LET value == ParseSection(data, key.position, <<>>)
             IN  IF value.raised
                 THEN [value EXCEPT !.result = result]
                 ELSE LET rest == ParseSection(data, value.position,
                                      Put(result, key.value,
                                          SectionValue(value.result)))
                      IN  [rest EXCEPT !.unknown = @ \/ value.unknown]
        ELSE IF type_byte = TYPE_STRING
        THEN LET value == ReadCString(data, key.position)
             IN  ParseSection(data, value.position,
                              Put(result, key.value, StringValue(value.value)))
        ELSE IF type_byte = TYPE_INT32
        THEN IF CanReadInt32(data, key.position)
             THEN ParseSection(data, key.position + 4,
                      Put(result, key.value,
                          IntValue(ReadInt32(data, key.position))))
             ELSE [result |-> result, position |-> key.position,
                   unknown |-> FALSE, raised |-> TRUE]
        ELSE [result |-> result, position |-> position + 1,
              unknown |-> TRUE, raised |-> FALSE]

\* Python's truth test of a value: '', 0 and {} are false
IsTrue(value) ==
    CASE value.type = "string" -> value.str # <<>>
      [] value.type = "int" -> value.int # 0
      [] OTHER -> value.items # <<>>

\* _extract_game_info (the record returned when app_name is true)
ExtractGameInfo(game_data) ==
    [name |-> Get(game_data, AppNameKey,
                  Get(game_data, LowerAppNameKey, StringValue(<<>>))),
     exe |-> Get(game_data, ExeKey, Get(game_data, LowerExeKey, StringValue(<<>>))),
     start_dir |-> Get(game_data, StartDirKey, StringValue(<<>>)),
     app_id |-> Get(game_data, AppIdKey, IntValue(0)),
     raw_data |-> game_data]

IsDict(item) == item.value.type = "section"

HasName(game) == IsTrue(game.name)

\* the loop of ShortcutsParser.parse over shortcuts.items()
ExtractGames(shortcuts) ==
    LET dicts == SelectSeq(shortcuts, IsDict)
        infos == [i \in DOMAIN dicts |-> ExtractGameInfo(dicts[i].value.items)]
    IN  SelectSeq(infos, HasName)

\* The pieces the files are made of: the header of the shortcuts section
\* and of a game's section, an AppName (with a byte that is not UTF-8), an
\* appid, an appid cut short, the end of a section, and a type byte that is
\* none of the four.
Header(key) == <<TYPE_SECTION>> \o key \o <<0>>

Tokens ==
    {Header(ShortcutsKey),
     Header(<<48>>),
     <<TYPE_STRING>> \o AppNameKey \o <<0, 71, 255, 0>>,
     <<TYPE_INT32>> \o AppIdKey \o <<0, 7, 0, 0, 0>>,
     <<TYPE_INT32>> \o AppIdKey \o <<0, 7>>,
     <<TYPE_END>>,
     <<5>>}

\* the files of at most n pieces
RECURSIVE Files(_)
Files(n) ==
    IF n = 0 THEN {<<>>}
    ELSE LET shorter == Files(n - 1)
         IN  shorter \cup {f \o t : f \in shorter, t \in Tokens}

VdfInit ==
    /\ vdf \in {[NoVdf EXCEPT !.data = d] : d \in Files(MaxTokens)}
    /\ local = MissingDir
    /\ cloud = MissingDir
    /\ backup_dir = NoBackups
    /\ clock = 1
    /\ pc = "idle"
    /\ dry_run = FALSE
    /\ last_sync = [kind |-> "none", ts |-> 0]
    /\ comparisons = <<>>
    /\ idx = 0
    /\ results = NoResults
    /\ fs0 = Snapshot
    /\ call = NoCall
    /\ game_config = NoConfig
    /\ preview = NoPreview
    /\ detected = "none"
    /\ dsync = NoDirectional
    /\ detector = NoDetector
    /\ saves = NoSaves
    /\ cmd = NoCmd

\* ShortcutsParser.parse: an exception of VDFParser.parse becomes a
\* ValueError; data.get('shortcuts', {}).items() raises AttributeError when
\* the value is a str or an int.  The file is taken to be readable.
ShortcutsParse ==
    /\ pc = "idle"
    /\ LET data == ParseSection(vdf.data, 1, <<>>)
           shortcuts == Get(data.result, ShortcutsKey, SectionValue(<<>>))
       IN  vdf' =
             IF data.raised
             THEN [vdf EXCEPT !.returned = "ValueError", !.unknown = data.unknown]
             ELSE IF shortcuts.type # "section"
             THEN [vdf EXCEPT !.returned = "AttributeError",
                              !.unknown = data.unknown]
             ELSE [vdf EXCEPT !.returned = "games",
                              !.games = ExtractGames(shortcuts.items),
                              !.unknown = data.unknown]
    /\ pc' = "parsed"
    /\ UNCHANGED <<local, cloud, backup_dir, clock, dry_run, last_sync,
                   comparisons, idx, results, fs0, call, game_config, preview,
                   detected, dsync, detector, saves, cmd>>

VdfNext == ShortcutsParse

VdfSpec == VdfInit /\ [][VdfNext]_vars

\* C20: when the decoder reads a type byte other than 0x00, 0x01, 0x02 and
\* 0x08, at any nesting level, decoding fails with an error and yields no
\* shortcut record: the entries decoded before the byte are not returned.
C20_UnknownTagFails ==
    pc = "parsed" /\ vdf.unknown =>
        /\ vdf.returned = "ValueError"
        /\ vdf.games = <<>>

---------------------------------------------------------------------------
(* GameDetector.detect_non_steam_games: the shortcuts files of several    *)
(* users                                                                   *)

\* the users of userdata are numbered 1..MaxUsers
MaxUsers == 3

\* get_shortcuts_path returns None: the user has no shortcuts.vdf
NoShortcuts == <<-1>>

\* ShortcutsParser.parse as a function of the file's bytes: the exception
\* raised, or the games returned
ParserParse(data) ==
    LET parsed == ParseSection(data, 1, <<>>)
        shortcuts == Get(parsed.result, ShortcutsKey, SectionValue(<<>>))
    IN  IF parsed.raised
        THEN [returned |-> "ValueError", games |-> <<>>]
        ELSE IF shortcuts.type # "section"
        THEN [returned |-> "AttributeError", games |-> <<>>]
        ELSE [returned |-> "games", games |-> ExtractGames(shortcuts.items)]

\* The shortcuts files: with one game, with two games, with no game, a
\* truncated file, and a file whose 'shortcuts' entry is a string.
ShortcutsFiles ==
    {Header(ShortcutsKey) \o Header(<<48>>)
         \o <<TYPE_STRING>> \o AppNameKey \o <<0, 71, 0>>
         \o <<TYPE_END, TYPE_END, TYPE_END>>,
     Header(ShortcutsKey)
         \o Header(<<48>>) \o <<TYPE_STRING>> \o AppNameKey \o <<0, 71, 0>>
         \o <<TYPE_END>>
         \o Header(<<49>>) \o <<TYPE_STRING>> \o AppNameKey \o <<0, 72, 0>>
         \o <<TYPE_END>>
         \o <<TYPE_END, TYPE_END>>,
     Header(ShortcutsKey) \o <<TYPE_END, TYPE_END>>,
     Header(ShortcutsKey) \o Header(<<48>>)
         \o <<TYPE_INT32>> \o AppIdKey \o <<0, 7>>,
     <<TYPE_STRING>> \o ShortcutsKey \o <<0, 71, 0>> \o <<TYPE_END>>}

DetectGamesInit ==
    /\ detector \in
         {[NoDetector EXCEPT !.userdata = u] :
            u \in [(1..MaxUsers) -> ShortcutsFiles \cup {NoShortcuts}]}
    /\ local = MissingDir
    /\ cloud = MissingDir
    /\ backup_dir = NoBackups
    /\ clock = 1
    /\ pc = "idle"
    /\ dry_run = FALSE
    /\ last_sync = [kind |-> "none", ts |-> 0]
    /\ comparisons = <<>>
    /\ idx = 0
    /\ results = NoResults
    /\ fs0 = Snapshot
    /\ call = NoCall
    /\ game_config = NoConfig
    /\ preview = NoPreview
    /\ detected = "none"
    /\ dsync = NoDirectional
    /\ vdf = NoVdf
    /\ saves = NoSaves
    /\ cmd = NoCmd

\* the user ids detect_non_steam_games goes through: the one given, or
\* those of detect_user_ids, the numeric directories of userdata, sorted
UserIdsOf(user_id) ==
    IF user_id # 0 THEN <<user_id>>
    ELSE [i \in 1..Len(detector.userdata) |-> i]

\* game['user_id'] = uid
Tagged(games, uid) ==
    [i \in 1..Len(games) |-> [user_id |-> uid] @@ games[i]]

\* detect_non_steam_games(user_id): user_id = 0 stands for None
DetectNonSteamGames(user_id) ==
    /\ pc = "idle"
    /\ pc' = "users"
    /\ detector' = [detector EXCEPT !.user_id = user_id, !.position = 1,
                                    !.all_games = <<>>, !.warnings = <<>>]
    /\ UNCHANGED <<local, cloud, backup_dir, clock, dry_run, last_sync,
                   comparisons, idx, results, fs0, call, game_config, preview,
                   detected, dsync, vdf, saves, cmd>>

\* one user of the loop, with a try block around the whole loop: the first
\* failure ends the loop
DetectUserAborting ==
    /\ pc = "users"
    /\ detector.position <= Len(UserIdsOf(detector.user_id))
    /\ LET uid == UserIdsOf(detector.user_id)[detector.position]
           file == detector.userdata[uid]
           parsed == ParserParse(file)
       IN  detector' =
             IF file = NoShortcuts
             THEN [detector EXCEPT !.position = @ + 1]
             ELSE IF parsed.returned = "games"
             THEN [detector EXCEPT
                     !.position = @ + 1,
                     !.all_games = @ \o Tagged(parsed.games, uid)]
             ELSE [detector EXCEPT
                     !.position = Len(UserIdsOf(detector.user_id)) + 1,
                     !.warnings = Append(@, uid)]
    /\ UNCHANGED <<local, cloud, backup_dir, clock, pc, dry_run, last_sync,
                   comparisons, idx, results, fs0, call, game_config, preview,
                   detected, dsync, vdf, saves, cmd>>

\* one user of the loop: no shortcuts file, continue; the games of the file,
\* tagged with the user; or, on any exception, a warning
DetectUser ==
    /\ pc = "users"
    /\ detector.position <= Len(UserIdsOf(detector.user_id))
    /\ LET uid == UserIdsOf(detector.user_id)[detector.position]
           file == detector.userdata[uid]
           parsed == ParserParse(file)
       IN  detector' =
             IF file = NoShortcuts
             THEN [detector EXCEPT !.position = @ + 1]
             ELSE IF parsed.returned = "games"
             THEN [detector EXCEPT
                     !.position = @ + 1,
                     !.all_games = @ \o Tagged(parsed.games, uid)]
             ELSE [detector EXCEPT
                     !.position = @ + 1,
                     !.warnings = Append(@, uid)]
    /\ UNCHANGED <<local, cloud, backup_dir, clock, pc, dry_run, last_sync,
                   comparisons, idx, results, fs0, call, game_config, preview,
                   detected, dsync, vdf, saves, cmd>>

\* return all_games
DetectGamesReturn ==
    /\ pc = "users"
    /\ detector.position > Len(UserIdsOf(detector.user_id))
    /\ pc' = "detected"
    /\ UNCHANGED <<local, cloud, backup_dir, clock, dry_run, last_sync,
                   comparisons, idx, results, fs0, call>>
    /\ UNCHANGED aux

DetectGamesNext ==
    \/ \E user_id \in {0} \cup (1..MaxUsers) : DetectNonSteamGames(user_id)
    \/ DetectUser
    \/ DetectGamesReturn

DetectGamesSpec == DetectGamesInit /\ [][DetectGamesNext]_vars

\* the user's shortcuts file decodes
Decodes(uid) ==
    /\ detector.userdata[uid] # NoShortcuts
    /\ ParserParse(detector.userdata[uid]).returned = "games"

\* the user's shortcuts file is there and does not decode
FailsToDecode(uid) ==
    /\ detector.userdata[uid] # NoShortcuts
    /\ ParserParse(detector.userdata[uid]).returned # "games"

\* the games of the returned list that carry the user's id
ReturnedFor(uid) ==
    SelectSeq(detector.all_games, LAMBDA g : g.user_id = uid)

\* the users the call goes through
Iterated == {UserIdsOf(detector.user_id)[i] :
               i \in 1..Len(UserIdsOf(detector.user_id))}

\* C21: when detect_non_steam_games has returned, the games of every user
\* whose shortcuts file decodes are all in the returned list, each tagged
\* with that user's id, whether or not the file of another user, before or
\* after it in the iteration, failed to decode.
C21_FailureIsolated ==
    pc = "detected" =>
        \A uid \in Iterated :
            Decodes(uid) =>
                ReturnedFor(uid)
                    = Tagged(ExtractGames(
                        Get(ParseSection(detector.userdata[uid], 1, <<>>).result,
                            ShortcutsKey, SectionValue(<<>>)).items), uid)

\* all users were gone through; the file of user 2 does not decode, the
\* files of users 1 and 3 hold games and these are returned
C21_Witness ==
    /\ pc = "detected"
    /\ detector.user_id = 0
    /\ FailsToDecode(2)
    /\ Decodes(1) /\ ReturnedFor(1) # <<>>
    /\ Decodes(3) /\ ReturnedFor(3) # <<>>
    /\ detector.warnings = <<2>>

---------------------------------------------------------------------------
(* SaveLocationDetector: find_save_directories over a directory tree.     *)
(* A name is a tuple of characters, a path a tuple of names below the     *)
(* home directory; Path equality is that of a case-sensitive file system. *)

\* the letters: upper case, and lower case in the same order
Letters ==
    [upper |->
        <<"A", "B", "C", "D", "E", "F", "G", "H", "I", "J", "K", "L", "M",
          "N", "O", "P", "Q", "R", "S", "T", "U", "V", "W", "X", "Y", "Z">>,
     lower |->
        <<"a", "b", "c", "d", "e", "f", "g", "h", "i", "j", "k", "l", "m",
          "n", "o", "p", "q", "r", "s", "t", "u", "v", "w", "x", "y", "z">>]

\* str.lower(): each upper-case letter becomes its lower-case letter
Lower(name) ==
    [k \in 1..Len(name) |->
        IF \E i \in 1..26 : Letters.upper[i] = name[k]
        THEN Letters.lower[CHOOSE i \in 1..26 : Letters.upper[i] = name[k]]
        ELSE name[k]]

\* a in b, for two strings
Contains(a, b) ==
    \E i \in 1..(Len(b) - Len(a) + 1) : SubSeq(b, i, i + Len(a) - 1) = a

\* name.endswith(ext)
EndsWith(name, ext) ==
    /\ Len(ext) <= Len(name)
    /\ SubSeq(name, Len(name) - Len(ext) + 1, Len(name)) = ext

\* str.replace(old, new) for a single character old; new is a string
RECURSIVE Replace(_, _, _)
Replace(name, old, new) ==
    IF name = <<>> THEN <<>>
    ELSE (IF Head(name) = old THEN new ELSE <<Head(name)>>)
             \o Replace(Tail(name), old, new)

\* str.split(): the words between runs of spaces
RECURSIVE Split(_, _)
Split(name, word) ==
    IF name = <<>>
    THEN IF word = <<>> THEN <<>> ELSE <<word>>
    ELSE IF Head(name) = " "
    THEN (IF word = <<>> THEN <<>> ELSE <<word>>) \o Split(Tail(name), <<>>)
    ELSE Split(Tail(name), Append(word, Head(name)))

\* ' '.join(words)
RECURSIVE Join(_)
Join(words) ==
    IF words = <<>> THEN <<>>
    ELSE IF Len(words) = 1 THEN words[1]
    ELSE words[1] \o <<" ">> \o Join(Tail(words))

\* a character re's [\w\s-] keeps
IsKept(c) ==
    \/ \E i \in 1..26 : c = Letters.upper[i] \/ c = Letters.lower[i]
    \/ c \in {"0", "1", "2", "3", "4", "5", "6", "7", "8", "9", "_", " ", "-"}

\* _clean_game_name
CleanGameName(name) ==
    Join(Split(SelectSeq(name, IsKept), <<>>))

\* The names of the directories and files of the model's trees.  SteamUser
\* stands for proton_prefix / "users" / "steamuser", written as one name:
\* the directory is there when check_proton_prefix finds a prefix.
Name ==
    [Documents |-> <<"D", "o", "c", "u", "m", "e", "n", "t", "s">>,
     MyGames |-> <<"M", "y", " ", "G", "a", "m", "e", "s">>,
     SavedGames |-> <<"S", "a", "v", "e", "d", " ", "G", "a", "m", "e", "s">>,
     AppData |-> <<"A", "p", "p", "D", "a", "t", "a">>,
     Roaming |-> <<"R", "o", "a", "m", "i", "n", "g">>,
     Local |-> <<"L", "o", "c", "a", "l">>,
     LocalLow |-> <<"L", "o", "c", "a", "l", "L", "o", "w">>,
     DotLocal |-> <<".", "l", "o", "c", "a", "l">>,
     Share |-> <<"s", "h", "a", "r", "e">>,
     DotConfig |-> <<".", "c", "o", "n", "f", "i", "g">>,
     HungerGames |-> <<"H", "u", "n", "g", "e", "r", " ", "G", "a", "m", "e", "s">>,
     Saves |-> <<"s", "a", "v", "e", "s">>,
     Slot |-> <<"s", "l", "o", "t", "1">>,
     Deep |-> <<"d", "e", "e", "p">>,
     Other |-> <<"O", "t", "h", "e", "r">>,
     Cache |-> <<"C", "a", "c", "h", "e">>,
     TextFile |-> <<"a", ".", "t", "x", "t">>,
     SavFile |-> <<"a", ".", "s", "a", "v">>,
     SavedFile |-> <<"s", "a", "v", "e", "d">>,
     SteamUser |-> <<"p", "f", "x">>]

max_depth == 3

\* the file counts as a save file: by extension or by keyword
IsSaveFile(name) ==
    LET save_extensions ==
            <<<<".", "s", "a", "v">>,
              <<".", "d", "a", "t">>,
              <<".", "s", "a", "v", "e">>,
              <<".", "b", "i", "n">>,
              <<".", "s", "l", "o", "t">>>>
        save_keywords ==
            <<<<"s", "a", "v", "e">>,
              <<"s", "a", "v", "e", "s">>,
              <<"s", "a", "v", "e", "g", "a", "m", "e">>,
              <<"s", "a", "v", "e", "g", "a", "m", "e", "s">>,
              <<"s", "a", "v", "e", "d", "a", "t", "a">>,
              <<"s", "a", "v", "e", "d">>>>
    IN  \/ \E i \in 1..Len(save_extensions) :
              EndsWith(Lower(name), save_extensions[i])
        \/ \E i \in 1..Len(save_keywords) :
              Contains(save_keywords[i], Lower(name))

\* p in path.parents
IsParentOf(p, path) ==
    /\ Len(p) < Len(path)
    /\ SubSeq(path, 1, Len(p)) = p

\* the directories the model's trees are made of, in the order iterdir
\* lists them
Skeleton ==
    <<<<Name.Documents>>,
      <<Name.Documents, Name.MyGames>>,
      <<Name.Documents, Name.MyGames, Name.Cache>>,
      <<Name.Documents, Name.MyGames, Name.HungerGames>>,
      <<Name.Documents, Name.MyGames, Name.HungerGames, Name.Saves>>,
      <<Name.Documents, Name.MyGames, Name.HungerGames, Name.Saves, Name.Slot>>,
      <<Name.Documents, Name.MyGames, Name.HungerGames, Name.Saves, Name.Slot,
        Name.Deep>>,
      <<Name.Documents, Name.Other>>,
      <<Name.Documents, Name.Other, Name.HungerGames>>,
      <<Name.SteamUser>>,
      <<Name.SteamUser, Name.Documents>>,
      <<Name.SteamUser, Name.Documents, Name.HungerGames>>>>

\* path.exists()
PathExists(path) == path \in saves.dirs

\* the directories of path.iterdir()
SubDirs(path) ==
    SelectSeq(Skeleton,
              LAMBDA p : p \in saves.dirs /\ Len(p) = Len(path) + 1
                                          /\ IsParentOf(path, p))

\* the directories the searches do not enter; search_for_saves also leaves
\* out __pycache__
SystemDirs(pycache) ==
    {<<"M", "i", "c", "r", "o", "s", "o", "f", "t">>,
     <<"T", "e", "m", "p">>,
     <<"t", "e", "m", "p">>,
     <<"C", "a", "c", "h", "e">>,
     <<"c", "a", "c", "h", "e">>}
        \cup (IF pycache THEN {<<"_", "_", "p", "y", "c", "a", "c", "h", "e", "_", "_">>} ELSE {})

\* search_for_saves(path, depth): the entries it adds to save_dirs, in the
\* order it adds them; a directory is added after its subdirectories
RECURSIVE SearchForSaves(_, _)
RECURSIVE SearchForSavesIn(_, _)
SearchForSaves(path, depth) ==
    LET save_file_count == Len(SelectSeq(saves.files[path], IsSaveFile))
    IN  IF depth > max_depth THEN <<>>
        ELSE SearchForSavesIn(SubDirs(path), depth)
                 \o (IF save_file_count > 0
                     THEN <<[path |-> path, count |-> save_file_count]>>
                     ELSE <<>>)

\* the subdirectories of the loop of search_for_saves
SearchForSavesIn(items, depth) ==
    IF items = <<>> THEN <<>>
    ELSE (IF items[1][Len(items[1])] \in SystemDirs(TRUE)
          THEN <<>>
          ELSE SearchForSaves(items[1], depth + 1))
             \o SearchForSavesIn(Tail(items), depth)

\* sorted(save_dirs.items(), key=count, reverse=True): stable, by insertion
RECURSIVE SortedByCount(_)
SortedByCount(entries) ==
    IF entries = <<>> THEN <<>>
    ELSE LET top == CHOOSE i \in 1..Len(entries) :
                        /\ \A j \in 1..Len(entries) :
                              entries[j].count <= entries[i].count
                        /\ \A j \in 1..(i - 1) :
                              entries[j].count < entries[i].count
         IN  <<entries[top]>>
                 \o SortedByCount(SubSeq(entries, 1, top - 1)
                                      \o SubSeq(entries, top + 1, Len(entries)))

\* the loop over sorted_dirs: a path with a parent in result is left out;
\* any other path replaces its children in result
RECURSIVE KeepShallowest(_, _)
KeepShallowest(sorted_dirs, result) ==
    IF sorted_dirs = <<>> THEN result
    ELSE LET path == sorted_dirs[1].path
             has_parent == \E i \in 1..Len(result) : IsParentOf(result[i], path)
         IN  KeepShallowest(
                 Tail(sorted_dirs),
                 IF has_parent THEN result
                 ELSE Append(SelectSeq(result, LAMBDA p : ~IsParentOf(path, p)),
                             path))

\* _find_save_subdirs(game_dir)
FindSaveSubdirs(game_dir) ==
    KeepShallowest(SortedByCount(SearchForSaves(game_dir, 0)), <<>>)

\* the directory's name matches the game's name: one of the variations of
\* the name is in it or holds it, or it holds a word of the name longer
\* than three characters
Matched(item_name, game_name) ==
    LET game_name_lower == Lower(game_name)
        item_name_lower == Lower(item_name)
        game_words ==
            SelectSeq(Split(game_name_lower, <<>>), LAMBDA word : Len(word) > 3)
        game_variations ==
            <<game_name_lower,
              Replace(game_name_lower, " ", <<>>),
              Replace(game_name_lower, " ", <<"-">>),
              Replace(game_name_lower, "'", <<>>)>>
    IN  \/ \E i \in 1..4 :
              /\ game_variations[i] # <<>>
              /\ \/ Contains(game_variations[i], item_name_lower)
                 \/ Contains(item_name_lower, game_variations[i])
        \/ \E i \in 1..Len(game_words) :
              Contains(game_words[i], item_name_lower)

\* search_recursive(path, depth) of _find_game_subdirs: the matches added
RECURSIVE SearchRecursive(_, _, _)
RECURSIVE SearchRecursiveIn(_, _, _)
SearchRecursive(path, depth, game_name) ==
    IF depth > max_depth THEN <<>>
    ELSE SearchRecursiveIn(SubDirs(path), depth, game_name)

\* the loop of search_recursive
SearchRecursiveIn(items, depth, game_name) ==
    IF items = <<>> THEN <<>>
    ELSE LET item == items[1]
             found == FindSaveSubdirs(item)
         IN  (IF item[Len(item)] \in SystemDirs(FALSE) THEN <<>>
              ELSE IF Matched(item[Len(item)], game_name)
              THEN (IF found # <<>> THEN found ELSE <<item>>)
              ELSE SearchRecursive(item, depth + 1, game_name))
                 \o SearchRecursiveIn(Tail(items), depth, game_name)

\* _find_game_subdirs(base_path, game_name) for each of the locations, one
\* after the other
RECURSIVE SearchLocations(_, _)
SearchLocations(locations, game_name) ==
    IF locations = <<>> THEN <<>>
    ELSE (IF ~PathExists(locations[1]) THEN <<>>
          ELSE SearchRecursive(locations[1], 0, game_name))
             \o SearchLocations(Tail(locations), game_name)

\* candidates of find_save_directories, before duplicates are removed: from
\* the Proton prefix, from the game's directory and, when these give
\* nothing or the system is not Linux, from the system's usual places
Candidates ==
    LET clean_name == CleanGameName(saves.name)
        prefix_locations ==
            <<<<Name.SteamUser, Name.AppData, Name.Local>>,
              <<Name.SteamUser, Name.AppData, Name.Roaming>>,
              <<Name.SteamUser, Name.AppData, Name.LocalLow>>,
              <<Name.SteamUser, Name.Documents>>,
              <<Name.SteamUser, Name.Documents, Name.MyGames>>,
              <<Name.SteamUser, Name.SavedGames>>>>
        common_save_locations ==
            SelectSeq(
                IF saves.os_type = "linux"
                THEN <<<<Name.DotLocal, Name.Share>>, <<Name.DotConfig>>,
                       <<Name.Documents>>, <<Name.Documents, Name.MyGames>>>>
                ELSE <<<<Name.Documents>>, <<Name.Documents, Name.MyGames>>,
                       <<Name.SavedGames>>, <<Name.AppData, Name.Roaming>>,
                       <<Name.AppData, Name.Local>>,
                       <<Name.AppData, Name.LocalLow>>>>,
                PathExists)
        save_dirs ==
            <<<<"s", "a", "v", "e">>,
              <<"s", "a", "v", "e", "s">>,
              <<"s", "a", "v", "e", "g", "a", "m", "e">>,
              <<"s", "a", "v", "e", "g", "a", "m", "e", "s">>,
              <<"S", "a", "v", "e", "D", "a", "t", "a">>,
              <<"S", "a", "v", "e", "s">>>>
        from_prefix ==
            IF saves.os_type = "linux" /\ PathExists(<<Name.SteamUser>>)
            THEN SearchLocations(SelectSeq(prefix_locations, PathExists),
                                 clean_name)
            ELSE <<>>
        from_game_dir ==
            IF saves.start_dir # <<>> /\ PathExists(saves.start_dir)
            THEN SelectSeq([i \in 1..Len(save_dirs) |->
                              Append(saves.start_dir, save_dirs[i])],
                           PathExists)
            ELSE <<>>
        first == from_prefix \o from_game_dir
    IN  IF first = <<>> \/ saves.os_type # "linux"
        THEN first \o SearchLocations(common_save_locations, clean_name)
        ELSE first

\* the lists of the elements of a set, in any order
RECURSIVE Orders(_)
Orders(S) ==
    IF S = {} THEN {<<>>}
    ELSE UNION {{<<x>> \o rest : rest \in Orders(S \ {x})} : x \in S}

Range(list) == {list[i] : i \in 1..Len(list)}

\* The directories whose name matches a game's: _find_save_subdirs is
\* called on these, and their files vary, with those of saves.
GameDirs ==
    {<<Name.Documents, Name.MyGames>>,
     <<Name.Documents, Name.MyGames, Name.HungerGames>>,
     <<Name.SteamUser, Name.Documents, Name.HungerGames>>}

\* The directory trees hold with each directory its parent, and Documents
\* always; a Proton prefix and the directory Other come with the game's
\* directory in them.  The game is named '', 'Hunger' or 'Hunger Games!'.  A directory of
\* GameDirs and saves hold no file, a.txt and a.sav, or a.sav and saved;
\* slot1, deep and Cache hold a.sav; the other directories hold no file.
SavesInit ==
    /\ saves \in
         {[NoSaves EXCEPT
             !.dirs = D,
             !.files =
                 [p \in Range(Skeleton) |->
                    IF p \notin D THEN <<>>
                    ELSE IF p \in GameDirs \/ p[Len(p)] = Name.Saves THEN f[p]
                    ELSE IF p[Len(p)] \in {Name.Slot, Name.Deep, Name.Cache}
                    THEN <<Name.SavFile>>
                    ELSE <<>>],
             !.name = n, !.start_dir = d, !.os_type = o] :
            D \in {T \in SUBSET Range(Skeleton) :
                     /\ <<Name.Documents>> \in T
                     /\ \A p \in T :
                           Len(p) > 1 => SubSeq(p, 1, Len(p) - 1) \in T
                     /\ <<Name.SteamUser>> \in T
                           => <<Name.SteamUser, Name.Documents,
                                Name.HungerGames>> \in T
                     /\ <<Name.Documents, Name.Other>> \in T
                           => <<Name.Documents, Name.Other,
                                Name.HungerGames>> \in T},
            f \in [GameDirs \cup {Skeleton[5]} ->
                     {<<>>, <<Name.TextFile, Name.SavFile>>,
                      <<Name.SavFile, Name.SavedFile>>}],
            n \in {<<>>, <<"H", "u", "n", "g", "e", "r">>,
                   <<"H", "u", "n", "g", "e", "r", " ", "G", "a", "m", "e", "s", "!">>},
            d \in {<<>>, <<Name.Documents, Name.MyGames, Name.HungerGames>>},
            o \in {"linux", "windows"}}
    /\ local = MissingDir
    /\ cloud = MissingDir
    /\ backup_dir = NoBackups
    /\ clock = 1
    /\ pc = "idle"
    /\ dry_run = FALSE
    /\ last_sync = [kind |-> "none", ts |-> 0]
    /\ comparisons = <<>>
    /\ idx = 0
    /\ results = NoResults
    /\ fs0 = Snapshot
    /\ call = NoCall
    /\ game_config = NoConfig
    /\ preview = NoPreview
    /\ detected = "none"
    /\ dsync = NoDirectional
    /\ vdf = NoVdf
    /\ detector = NoDetector
    /\ cmd = NoCmd

\* find_save_directories(game_info): list(set(candidates)), whose order is
\* that of the set
FindSaveDirectories ==
    /\ pc = "idle"
    /\ \E returned \in Orders(Range(Candidates)) :
          saves' = [saves EXCEPT !.returned = returned,
                                !.call = "find_save_directories"]
    /\ pc' = "found"
    /\ UNCHANGED <<local, cloud, backup_dir, clock, dry_run, last_sync,
                   comparisons, idx, results, fs0, call, game_config, preview,
                   detected, dsync, vdf, detector, cmd>>

\* _find_save_subdirs(game_dir) for a directory of the tree
FindSaveSubdirsOf(game_dir) ==
    /\ pc = "idle"
    /\ PathExists(game_dir)
    /\ saves' = [saves EXCEPT !.returned = FindSaveSubdirs(game_dir),
                              !.call = "_find_save_subdirs",
                              !.game_dir = game_dir]
    /\ pc' = "found"
    /\ UNCHANGED <<local, cloud, backup_dir, clock, dry_run, last_sync,
                   comparisons, idx, results, fs0, call, game_config, preview,
                   detected, dsync, vdf, detector, cmd>>

SavesNext ==
    \/ FindSaveDirectories
    \/ \E game_dir \in GameDirs : FindSaveSubdirsOf(game_dir)

SavesSpec == SavesInit /\ [][SavesNext]_vars

\* C22: the list find_save_directories returns holds no path twice and no
\* two paths of which one is an ancestor of the other.
C22_NoDuplicateNoNesting ==
    pc = "found" /\ saves.call = "find_save_directories" =>
        /\ \A i, j \in 1..Len(saves.returned) :
              i # j => saves.returned[i] # saves.returned[j]
        /\ \A i, j \in 1..Len(saves.returned) :
              ~IsParentOf(saves.returned[i], saves.returned[j])

\* the directories _find_save_subdirs recorded for the directory it was
\* called on, with their counts
Recorded == SearchForSaves(saves.game_dir, 0)

\* C30: when _find_save_subdirs recorded a directory and one of its
\* descendants and the descendant holds more save files, the ancestor is
\* not in the result: a child is never dropped in favour of a parent with
\* fewer save files.
C30_HigherCountRetained ==
    pc = "found" /\ saves.call = "_find_save_subdirs" =>
        \A i, j \in 1..Len(Recorded) :
            /\ IsParentOf(Recorded[i].path, Recorded[j].path)
            /\ Recorded[j].count > Recorded[i].count
            => Recorded[i].path \notin Range(saves.returned)

---------------------------------------------------------------------------
(* Further properties of one call of sync_files or resolve_conflict        *)

\* the rows of the comparison sync_files has gone through whose destination
\* was a file when the run started and is no longer what it was
Overwritten ==
    {i \in Done :
        \/ /\ comparisons[i].action = "copy_to_cloud"
           /\ IsFile(fs0.cloud, comparisons[i].filename)
           /\ cloud.files[comparisons[i].filename]
                 # fs0.cloud.files[comparisons[i].filename]
        \/ /\ comparisons[i].action = "copy_to_local"
           /\ IsFile(fs0.local, comparisons[i].filename)
           /\ local.files[comparisons[i].filename]
                 # fs0.local.files[comparisons[i].filename]}

EntriesWith(action) ==
    {i \in DOMAIN results.actions : results.actions[i].action = action}

\* C28: after a run that is not a dry run, actions has exactly one entry for
\* each compared file and each entry is counted once: a transfer in
\* files_synced or in errors, a conflict in conflicts, a skip in
\* files_skipped, so that the four add up to the number of actions.
C28_EachFileCountedOnce ==
    pc = "returned" /\ ~dry_run =>
        /\ Len(results.actions) = Len(comparisons)
        /\ \A f \in FileNames :
              Cardinality({i \in DOMAIN results.actions :
                             results.actions[i].filename = f})
                  = IF IsFile(fs0.local, f) \/ IsFile(fs0.cloud, f) THEN 1 ELSE 0
        /\ results.files_synced + Len(results.errors)
              = Cardinality(EntriesWith("copy_to_cloud")
                                \cup EntriesWith("copy_to_local"))
        /\ results.conflicts = Cardinality(EntriesWith("conflict"))
        /\ results.files_skipped = Cardinality(EntriesWith("skip"))
        /\ results.files_synced + results.files_skipped + results.conflicts
              + Len(results.errors) = Len(results.actions)

\* a run over two files: a copy that failed and a conflict
C28_Witness ==
    /\ pc = "returned" /\ ~dry_run
    /\ Len(results.actions) = 2
    /\ results.files_synced = 0
    /\ Len(results.errors) = 1
    /\ results.conflicts = 1

\* C29: a KEEP_LOCAL, KEEP_CLOUD or KEEP_BOTH resolution that does not
\* complete returns False, raises nothing, and leaves the local and the
\* cloud directory as they were when resolve_conflict was called.
C29_FailureReturnedAsFalse ==
    /\ pc = "rc_done"
    /\ call.strategy \in {"keep_local", "keep_cloud", "keep_both"}
    /\ call.returned # "true"
    => /\ call.returned = "false"
       /\ local = fs0.local
       /\ cloud = fs0.cloud

---------------------------------------------------------------------------
(* cmd_sync, run after run on one game (gamesync.py): unless --force is   *)
(* given, the conflicts of a first comparison are put to the user, who    *)
(* keeps the local version, the cloud version or both, or skips the file; *)
(* then sync_files runs and last_sync is replaced.  The runs are not dry  *)
(* runs, and nothing but cmd_sync changes the files.                      *)

MaxRuns == 2

\* the directories of the game, which holds one file
SessionDirs(side) ==
    {d \in CmdDirs(side) : \A f \in FileNames \ {1} : d.files[f] = NoEntry}

\* The clock starts late enough for files and last_sync to lie in the past;
\* a file may also carry a later time than the clock's.
SessionInit ==
    /\ local \in SessionDirs("local")
    /\ cloud \in SessionDirs("cloud")
    /\ backup_dir = [exists |-> TRUE, files |-> {}]
    /\ clock = MaxTime - 1
    /\ pc = "idle"
    /\ dry_run = FALSE
    /\ game_config \in {[last_sync |-> ls] :
                           ls \in {l \in SyncLastSyncValues : l.ts < MaxTime}}
    /\ last_sync = game_config.last_sync
    /\ comparisons = <<>>
    /\ idx = 0
    /\ results = NoResults
    /\ fs0 = Snapshot
    /\ call = NoCall
    /\ preview = NoPreview
    /\ detected = "none"
    /\ dsync = NoDirectional
    /\ vdf = NoVdf
    /\ detector = NoDetector
    /\ saves = NoSaves
    /\ cmd = NoCmd

\* time passes between two steps of the command
CmdTick ==
    /\ pc = "idle"
    /\ clock < MaxTime
    /\ clock' = clock + 1
    /\ UNCHANGED <<local, cloud, backup_dir, pc, dry_run, last_sync,
                   comparisons, idx, results, fs0, call>>
    /\ UNCHANGED aux

\* conflicts = [c for c in comparisons if c.action.value == 'conflict']
Conflicts == SelectSeq(comparisons, LAMBDA c : c.action = "conflict")

\* the start of a run: with --force straight to sync_files, otherwise the
\* comparison whose conflicts are put to the user
CmdCompare(force) ==
    /\ pc = "idle"
    /\ cmd.stage = "start"
    /\ Len(cmd.runs) < MaxRuns
    /\ last_sync' = game_config.last_sync
    /\ comparisons' = IF force THEN <<>>
                      ELSE CompareDirectories(game_config.last_sync)
    /\ idx' = 1
    /\ cmd' = [cmd EXCEPT !.stage = IF force THEN "sync" ELSE "resolving",
                          !.force = force, !.resolved = {}, !.skipped = {}]
    /\ UNCHANGED <<local, cloud, backup_dir, clock, pc, dry_run, results, fs0,
                   call, game_config, preview, detected, dsync, vdf, detector,
                   saves>>

\* choice 4: "Skip this file"
CmdSkipConflict ==
    /\ pc = "idle"
    /\ cmd.stage = "resolving"
    /\ idx <= Len(Conflicts)
    /\ idx' = idx + 1
    /\ cmd' = [cmd EXCEPT !.skipped = @ \cup {Conflicts[idx].filename}]
    /\ UNCHANGED <<local, cloud, backup_dir, clock, pc, dry_run, last_sync,
                   comparisons, results, fs0, call, game_config, preview,
                   detected, dsync, vdf, detector, saves>>

\* choices 1, 2 and 3: resolve_conflict with KEEP_LOCAL, KEEP_CLOUD, KEEP_BOTH
CmdResolve(strategy) ==
    /\ cmd.stage = "resolving"
    /\ idx <= Len(Conflicts)
    /\ ResolveConflict(Conflicts[idx].filename, strategy)

\* resolve_conflict has returned (its value is not looked at): the next
\* conflict.  An exception it raises ends the command.
CmdResolved ==
    /\ pc = "rc_done"
    /\ cmd.stage = "resolving"
    /\ call.returned # "raised"
    /\ pc' = "idle"
    /\ idx' = idx + 1
    /\ cmd' = [cmd EXCEPT
                 !.resolved = @ \cup {[filename |-> call.filename,
                                       strategy |-> call.strategy]}]
    /\ UNCHANGED <<local, cloud, backup_dir, clock, dry_run, last_sync,
                   comparisons, results, fs0, call, game_config, preview,
                   detected, dsync, vdf, detector, saves>>

\* "All conflicts resolved. Continuing with sync..."
CmdResolutionsDone ==
    /\ pc = "idle"
    /\ cmd.stage = "resolving"
    /\ idx > Len(Conflicts)
    /\ cmd' = [cmd EXCEPT !.stage = "sync"]
    /\ UNCHANGED <<local, cloud, backup_dir, clock, pc, dry_run, last_sync,
                   comparisons, idx, results, fs0, call, game_config, preview,
                   detected, dsync, vdf, detector, saves>>

\* results = sync_engine.sync_files(..., last_sync, dry_run=False)
CmdSyncFiles ==
    /\ cmd.stage = "sync"
    /\ SyncFiles(FALSE, game_config.last_sync)

\* the end of a run: last_sync is replaced when results['success'] holds and
\* there is no conflict (save_game_config may fail), and what the run did is
\* kept for the next
CmdSyncFinish ==
    /\ pc = "returned"
    /\ cmd.stage = "sync"
    /\ \E saved \in BOOLEAN :
          LET advanced == results.success /\ results.conflicts = 0 /\ saved
          IN  /\ game_config' =
                    IF advanced
                    THEN [game_config EXCEPT
                             !.last_sync = [kind |-> "iso", ts |-> clock]]
                    ELSE game_config
              /\ cmd' = [cmd EXCEPT
                    !.stage = "start",
                    !.runs = Append(@, [last_sync |-> last_sync,
                                        actions |-> results.actions,
                                        errors |-> Len(results.errors),
                                        conflicts |-> results.conflicts,
                                        resolved |-> cmd.resolved,
                                        advanced |-> advanced,
                                        finished |-> clock])]
    /\ pc' = "idle"
    /\ UNCHANGED <<local, cloud, backup_dir, clock, dry_run, last_sync,
                   comparisons, idx, results, fs0, call, preview, detected,
                   dsync, vdf, detector, saves>>

SessionNext ==
    \/ CmdTick
    \/ \E force \in BOOLEAN : CmdCompare(force)
    \/ CmdSkipConflict
    \/ \E strategy \in {"keep_local", "keep_cloud", "keep_both"} :
          CmdResolve(strategy)
    \/ RcMkdir
    \/ RcBackupLocal
    \/ RcBackupCloud
    \/ RcKeepLocal
    \/ RcKeepCloud
    \/ RcRenameLocal
    \/ RcRenameCloud
    \/ CmdResolved
    \/ CmdResolutionsDone
    \/ CmdSyncFiles
    \/ SyncBackup
    \/ SyncCopy
    \/ SyncConflict
    \/ SyncSkip
    \/ SyncReturn
    \/ CmdSyncFinish

SessionSpec == SessionInit /\ [][SessionNext]_vars

\* the first run of the command, once it has finished
FirstRun == cmd.runs[1]

\* the files a finished run transferred: a copy that succeeded
TransferredIn(run) ==
    {run.actions[i].filename : i \in
        {j \in DOMAIN run.actions :
            /\ run.actions[j].action \in {"copy_to_cloud", "copy_to_local"}
            /\ run.actions[j].success}}

\* sync_files is running, or has returned, in the second run of the command
InSecondSync == InSync /\ Len(cmd.runs) = 1 /\ cmd.stage = "sync"

\* C23: when a run has transferred a file and last_sync was not advanced
\* after it, the next run, with the same last_sync and the file untouched
\* in between, classifies the file as skip and not as conflict.
C23_TransferredThenSkipped ==
    /\ InSecondSync
    /\ ~FirstRun.advanced
    /\ cmd.resolved = {}
    => \A f \in TransferredIn(FirstRun) : Classified(f, "skip")

\* C24: when the user has resolved every conflict of the first comparison
\* by keeping the local or the cloud version, the sync_files call that
\* follows in the same run, with the same last_sync, classifies none of the
\* resolved files as conflict and reports no conflict (so that last_sync is
\* advanced).
C24_ResolvedThenNoConflict ==
    /\ pc = "returned"
    /\ cmd.stage = "sync"
    /\ ~cmd.force
    /\ cmd.resolved # {}
    /\ cmd.skipped = {}
    /\ \A r \in cmd.resolved : r.strategy \in {"keep_local", "keep_cloud"}
    => /\ \A r \in cmd.resolved : ~Classified(r.filename, "conflict")
       /\ results.conflicts = 0

\* C25: a backup is never overwritten: a backup that holds a version of a
\* file is still there, with the same content, after any step of any run or
\* resolution, also when another backup of the same file and side is taken
\* within the same second.
C25_BackupNeverOverwritten ==
    [][\A b \in backup_dir.files :
          b.bytes # PartialBytes => b \in backup_dir'.files]_vars

\* the first run had no conflict and no failure, and the user resolved
\* nothing in it
FirstRunClean ==
    /\ FirstRun.conflicts = 0
    /\ FirstRun.errors = 0
    /\ FirstRun.resolved = {}
    /\ \A i \in DOMAIN FirstRun.actions : FirstRun.actions[i].success

\* C27: after a run without conflicts or failures, a second run, with
\* last_sync absent in both runs or advanced to the time the first run
\* finished, classifies every file as skip and changes no file of the
\* local, the cloud or the backup directory.
C27_SecondRunChangesNothing ==
    /\ pc = "returned"
    /\ InSecondSync
    /\ FirstRunClean
    /\ cmd.resolved = {}
    /\ \/ FirstRun.last_sync.kind = "none" /\ last_sync.kind = "none"
       \/ FirstRun.advanced
             /\ last_sync = [kind |-> "iso", ts |-> FirstRun.finished]
    => /\ \A i \in DOMAIN results.actions : results.actions[i].action = "skip"
       /\ local = fs0.local
       /\ cloud = fs0.cloud
       /\ backup_dir = fs0.backup_dir

====
